---- MODULE Spec2Model ----
(***************************************************************************)
(* A model of the Album persistence protocol of @mattduffy/albums          *)
(* (src/src/index.js): one Album instance, the document collection it      *)
(* writes to and the redis recency stream 'mmt:albums:recent:10'.          *)
(*                                                                         *)
(* Every public method is one action.  A method body is a composition of   *)
(* step operators over a "world" record                                    *)
(*   [a, stream, store, dir, oid, sid, log, thrown, saved, ok, theId, ...] *)
(* so that the order of the awaited calls of a method is the order of the  *)
(* composition, and every external call the method issues is appended to   *)
(* log in the order it is issued.                                          *)
(***************************************************************************)
EXTENDS Integers, Sequences, FiniteSets, TLC

\* ---------------------------------------------------------------- bounds
\* ObjectIds are 1..MaxOid, generated in increasing order (new ObjectId()).
MaxOid == 3
\* Stream entry ids are 1..MaxSid, generated in increasing order (xAdd '*').
MaxSid == 2

\* The images list holds at most MaxImages descriptors.
MaxImages == 2

\* A path has at most MaxDepth segments.
MaxDepth == 3

\* At most MaxCalls save() calls of one album run concurrently.
MaxCalls == 2

\* The collection a static method of Albums reads holds at most MaxDocs
\* documents.
MaxDocs == 3

\* The album directory init() reads holds at most MaxFiles files.
MaxFiles == 5

\* ------------------------------------------------------------- constants
\* null / undefined identifier (#albumId = null, #streamId = null).
NoId == 0
NoSid == 0
\* A document field that is not part of the document (createAlbumJson
\* builds no streamId key).
AbsentSid == -1
\* A count the driver's reply does not carry (insertOne has no
\* matchedCount / modifiedCount / upsertedCount): undefined in the code.
Undef == -1

VARIABLES
  album,    \* the private fields of the Album instance
  stream,   \* redis stream: set of entries [sid, album]
  store,    \* mongodb collection: set of documents
            \* [_id, public, streamId, images]
  dir,      \* TRUE while the album directory exists on disk
  nextOid,  \* next ObjectId the driver generates
  nextSid,  \* next stream id redis generates
  call,     \* the last step, a method call: its name, its return, the return of the
            \* save() it ran ("none" if it ran none) and its call log;
            \* retry = its save() directly follows a call whose save() threw
  savedOk,  \* history: some save() of this instance has returned a result
  files,    \* the image names that have files in the album directory (the
            \* original and the variants generated from it)
  pendingRm, \* the names whose fs.rm calls, started by a deleteImage that
            \* has returned, have not settled yet
  args,     \* the arguments of a call of init() or of a static method of
            \* Albums, with what its collaborators answer
  result,   \* what that call returned
  iter,     \* #directoryIterator, the fs.Dir handle init() opens: the
            \* entries it will still return, the ones next() has returned
            \* and whether it has returned null
  inflight  \* the asynchronous calls that have started, each with the await
            \* it stands at: the generateSizes calls init() left running,
            \* and concurrent save() calls (kept when they have returned)

vars == <<album, stream, store, dir, nextOid, nextSid, call, savedOk, files,
          pendingRm, args, result, iter, inflight>>

\* ------------------------------------------------------------ helpers
NoJson == [set |-> FALSE, _id |-> NoId, public |-> FALSE, streamId |-> AbsentSid]

\* #directoryIterator before init(): next() returns null (lines 717-722).
NoIter == [open |-> FALSE, left |-> {}, returned |-> <<>>, ended |-> FALSE]

NoSaved == [matched |-> Undef, modified |-> Undef, upserted |-> Undef,
            insertedId |-> NoId, redis |-> FALSE]

Entry(c, ok, id) == [call |-> c, ok |-> ok, id |-> id]

\* The entries of the recency stream that carry album id `id`.
EntriesOf(strm, id) == {e \in strm : e.album = id}

World(a, strm, st, d, oid, sid) ==
  [a |-> a, stream |-> strm, store |-> st, dir |-> d, oid |-> oid, sid |-> sid,
   log |-> <<>>, thrown |-> FALSE, saved |-> NoSaved, ok |-> TRUE,
   theId |-> NoId, deleted |-> "undefined", returned |-> FALSE]

\* createAlbumJson(): the projection carries _id and public (and the other
\* scalar fields), and no streamId key.  Its images key holds the #images
\* array itself, not a copy: what the projection shows of the images is
\* album.images at the time it is read.
createAlbumJson(a) ==
  [set |-> TRUE, _id |-> a.albumId, public |-> a.public, streamId |-> AbsentSid]

\* ------------------------------------------------- removeFromRedisStream
\* Returns the world with ok = the method's return value.
removeFromRedisStream(w, delOk) ==
  IF w.a.streamId # NoSid
  THEN IF w.a.hasRedis /\ delOk
       THEN [w EXCEPT !.stream = {e \in w.stream : e.sid # w.a.streamId},
                      !.a.streamId = NoSid,
                      !.log = Append(@, Entry("xDel", TRUE, w.a.streamId)),
                      !.ok = TRUE]
       ELSE [w EXCEPT !.log = IF w.a.hasRedis
                               THEN Append(@, Entry("xDel", FALSE, w.a.streamId))
                               ELSE @,
                      !.ok = FALSE]
  ELSE [w EXCEPT !.ok = TRUE]

\* ------------------------------------------------------ addToRedisStream
addToRedisStream(w, delOk, addOk) ==
  IF ~w.a.hasRedis \/ w.a.albumId = NoId \/ ~w.a.public
  THEN [w EXCEPT !.ok = FALSE]
  ELSE LET w1 == IF w.a.streamId # NoSid
                 THEN [w EXCEPT
                         !.stream = IF delOk
                                    THEN {e \in w.stream : e.sid # w.a.streamId}
                                    ELSE @,
                         !.log = Append(@, Entry("xDel", delOk, w.a.streamId))]
                 ELSE w
       IN IF addOk
          THEN [w1 EXCEPT
                  !.stream = @ \cup {[sid |-> w1.sid, album |-> w1.a.albumId]},
                  !.a.streamId = w1.sid,
                  !.sid = @ + 1,
                  !.log = Append(@, Entry("xAdd", TRUE, w1.sid)),
                  !.ok = TRUE]
          ELSE [w1 EXCEPT !.log = Append(@, Entry("xAdd", FALSE, NoSid)),
                          !.ok = FALSE]

\* ------------------------------------------------------------------ save
\* AssignTheId with a generated id in every branch (new ObjectId() in place
\* of new ObjectId(this.#albumId)).
AssignTheIdFresh(w) ==
  IF w.a.newAlbum
  THEN [w EXCEPT !.theId = w.oid, !.a.albumId = w.oid, !.a.newAlbum = FALSE,
                 !.oid = @ + 1]
  ELSE [w EXCEPT !.theId = w.oid, !.oid = @ + 1]

\* save(), lines 519-528: theId and the new-album branch.  new ObjectId()
\* and new ObjectId(null) generate an id; new ObjectId(id) is that id.
AssignTheId(w) ==
  IF w.a.newAlbum
  THEN [w EXCEPT !.theId = w.oid, !.a.albumId = w.oid, !.a.newAlbum = FALSE,
                 !.oid = @ + 1]
  ELSE IF w.a.albumId = NoId
       THEN [w EXCEPT !.theId = w.oid, !.oid = @ + 1]
       ELSE [w EXCEPT !.theId = w.a.albumId]

\* save(), lines 530-532: the projection is built once and then cached.
CacheJson(w) ==
  IF w.a.albumJson.set THEN w ELSE [w EXCEPT !.a.albumJson = createAlbumJson(w.a)]

\* save(), lines 533-545: stream membership follows the public flag.  Both
\* callees catch every error of the redis client and return false, so the
\* catch clause of line 542 is never entered and nothing is attached to the
\* result.
SyncStream(w, delOk, addOk) ==
  IF w.a.public
  THEN addToRedisStream(w, delOk, addOk)
  ELSE removeFromRedisStream(w, delOk)

\* The document updateOne's $set writes (lines 557-573).
UpdateDoc(w) ==
  [_id |-> w.theId, public |-> w.a.public, streamId |-> w.a.streamId,
   images |-> w.a.images]

\* WriteDoc with the album that still has no id written by updateOne with
\* upsert under a generated id, like every other album.
WriteDocUpserts(w, wr) ==
  LET w0 == IF w.a.albumId = NoId
            THEN [w EXCEPT !.a.albumId = w.oid, !.a.albumJson._id = w.oid,
                           !.theId = w.oid, !.oid = @ + 1]
            ELSE w
      old == {d \in w0.store : d._id = w0.theId}
      new == UpdateDoc(w0)
  IN CASE wr = "throw" ->
            [w0 EXCEPT !.log = Append(@, Entry("updateOne", FALSE, w0.theId)),
                       !.thrown = TRUE]
       [] wr = "noop" ->
            [w0 EXCEPT !.log = Append(@, Entry("updateOne", TRUE, w0.theId)),
                       !.saved = [matched |-> 0, modified |-> 0, upserted |-> 0,
                                  insertedId |-> w0.a.albumId, redis |-> FALSE]]
       [] OTHER ->
            [w0 EXCEPT !.log = Append(@, Entry("updateOne", TRUE, w0.theId)),
                       !.store = (@ \ old) \cup {new},
                       !.saved = [matched |-> IF old = {} THEN 0 ELSE 1,
                                  modified |-> IF old # {} /\ old # {new}
                                               THEN 1 ELSE 0,
                                  upserted |-> IF old = {} THEN 1 ELSE 0,
                                  insertedId |-> w0.a.albumId,
                                  redis |-> FALSE]]

\* save(), lines 546-586: insertOne when the album still has no id,
\* updateOne with upsert otherwise.  wr is the reply of the store:
\* "ok" (the driver's reply), "noop" (a reply reporting zero counts) or
\* "throw".
WriteDoc(w, wr) ==
  IF w.a.albumId = NoId
  THEN LET id == w.oid
           w1 == [w EXCEPT !.a.albumId = id, !.a.albumJson._id = id, !.oid = @ + 1]
           doc == [_id |-> id, public |-> w1.a.albumJson.public,
                   streamId |-> w1.a.albumJson.streamId, images |-> w1.a.images]
       IN IF wr = "throw"
          THEN [w1 EXCEPT !.log = Append(@, Entry("insertOne", FALSE, id)),
                          !.thrown = TRUE]
          ELSE [w1 EXCEPT !.log = Append(@, Entry("insertOne", TRUE, id)),
                          !.store = @ \cup {doc},
                          !.saved = [NoSaved EXCEPT !.insertedId = id]]
  ELSE LET old == {d \in w.store : d._id = w.theId}
           new == UpdateDoc(w)
       IN CASE wr = "throw" ->
                 [w EXCEPT !.log = Append(@, Entry("updateOne", FALSE, w.theId)),
                           !.thrown = TRUE]
            [] wr = "noop" ->
                 [w EXCEPT !.log = Append(@, Entry("updateOne", TRUE, w.theId)),
                           !.saved = [matched |-> 0, modified |-> 0, upserted |-> 0,
                                      insertedId |-> w.a.albumId, redis |-> FALSE]]
            [] OTHER ->
                 [w EXCEPT !.log = Append(@, Entry("updateOne", TRUE, w.theId)),
                           !.store = (@ \ old) \cup {new},
                           !.saved = [matched |-> IF old = {} THEN 0 ELSE 1,
                                      modified |-> IF old # {} /\ old # {new}
                                                   THEN 1 ELSE 0,
                                      upserted |-> IF old = {} THEN 1 ELSE 0,
                                      insertedId |-> w.a.albumId,
                                      redis |-> FALSE]]

\* x < 1 in the code: false when x is undefined.
Lt1(x) == x # Undef /\ x < 1

\* SaveFailed as the condition line 589 keeps in a comment.
SaveFailedAnyZero(saved) ==
  saved.insertedId = NoId \/ Lt1(saved.upserted) \/ Lt1(saved.modified)

\* save(), line 590: the reply that makes save() return false.
SaveFailed(saved) ==
  Lt1(saved.modified) /\ Lt1(saved.upserted) /\ Lt1(saved.matched)

\* save(), lines 588-596.  The result's kind is "throw", "false" or "saved".
FinishSave(w) ==
  IF w.thrown THEN [w EXCEPT !.ok = FALSE]
  ELSE IF SaveFailed(w.saved) THEN [w EXCEPT !.ok = FALSE]
  ELSE [w EXCEPT !.a.albumId = IF @ = NoId THEN w.saved.insertedId ELSE @,
                 !.ok = TRUE]

\* SaveBody with the document written before the stream is synchronised.
SaveBodyWriteFirst(w, delOk, addOk, wr) ==
  IF ~w.a.hasDb
  THEN [w EXCEPT !.thrown = TRUE, !.ok = FALSE]
  ELSE FinishSave(SyncStream(WriteDoc(CacheJson(AssignTheId(w)), wr), delOk, addOk))

\* save(), lines 512-597.
SaveBody(w, delOk, addOk, wr) ==
  IF ~w.a.hasDb
  THEN [w EXCEPT !.thrown = TRUE, !.ok = FALSE]
  ELSE FinishSave(WriteDoc(SyncStream(CacheJson(AssignTheId(w)), delOk, addOk), wr))

RetKind(w) == IF w.thrown THEN "throw" ELSE IF w.ok THEN "saved" ELSE "false"

\* ------------------------------------------------------- image handlers
\* The file names a caller passes to addImage / updateImage / deleteImage.
Names == {"a", "b"}

\* The index of the first descriptor of the list with the given name, 0 if
\* there is none (Array.find / findIndex).
IndexOf(imgs, name) ==
  IF \E i \in DOMAIN imgs : imgs[i].name = name
  THEN CHOOSE i \in DOMAIN imgs :
         imgs[i].name = name /\ \A j \in DOMAIN imgs : imgs[j].name = name => i <= j
  ELSE 0

\* An image descriptor: its name and whether its size variants (big, med,
\* sml) are set.  addImage, lines 810-822, makes it with the three null.
Descriptor(name, sized) == [name |-> name, sized |-> sized]

\* generateSizes(image), lines 1199-1257: the descriptor whose variants are
\* set is the first one of the list with that name.
generateSizes(imgs, name) ==
  [i \in DOMAIN imgs |->
     IF i = IndexOf(imgs, name) THEN [imgs[i] EXCEPT !.sized = TRUE] ELSE imgs[i]]

\* Array.splice(index, 1)
Splice(imgs, index) ==
  [i \in 1..(Len(imgs) - 1) |-> IF i < index THEN imgs[i] ELSE imgs[i + 1]]

\* path.parse(name).name as a sequence of characters: "a" stands for the
\* file i1.jpg and "b" for i2.jpg.
Stem(name) == IF name = "a" THEN <<"i", "1">> ELSE <<"i", "2">>

\* s[from..] starts with p.
StartsAt(s, from, p) ==
  /\ from + Len(p) - 1 <= Len(s)
  /\ \A k \in 1..Len(p) : s[from + k - 1] = p[k]

\* deleteImage, lines 414-429: new RegExp(`${parts.name}*`).test(file).
\* The expression is not anchored and its star repeats the last character
\* of the name zero or more times: it matches a file name in which the
\* name without its last character occurs.  (The characters of a file
\* name are those of its image's name and a suffix that shares none.)
RegExpTest(stem, file) ==
  LET p == SubSeq(stem, 1, Len(stem) - 1)
  IN \E from \in 1..(Len(file) + 1) : StartsAt(file, from, p)

\* The files of the directory deleteImage(name) starts an fs.rm for.
Matching(fs, name) == {f \in fs : RegExpTest(Stem(name), Stem(f))}

\* What a handler leaves: the world, how it returned, how its save() ended,
\* the step that failed before save() (fault) and whether the result
\* object it returned carries an error (result.error).
Out(w, ret, save) ==
  [w |-> w, ret |-> ret, save |-> save, fault |-> "none", error |-> FALSE]

\* addImage(newImage, skipSizes), lines 737-853.  pre is how the steps
\* before save() end: "missing" (no newImage), "metaThrow" (exiftool init
\* or getMetadata fails), "thumbThrow" (writing the embedded thumbnail
\* fails), "sizesThrow" (generateSizes fails, after the descriptor was
\* pushed), "skipped" (skipSizes was given) or "ok" (the sizes were
\* generated).  A save() that returns false is not looked at.
AddImageBody(w, name, pre, delOk, addOk, wr) ==
  CASE pre = "missing" -> Out(w, "false", "none")
    [] pre \in {"metaThrow", "thumbThrow"} -> Out(w, "throw", "none")
    [] OTHER ->
       LET w1 == [w EXCEPT !.a.images = Append(@, Descriptor(name, FALSE))]
           ws == IF pre = "skipped" THEN w1
                 ELSE [w1 EXCEPT !.a.images = generateSizes(@, name)]
       IN IF pre = "sizesThrow"
          THEN Out(w1, "throw", "none")
          ELSE LET w2 == SaveBody(ws, delOk, addOk, wr)
               IN Out(w2, IF w2.thrown THEN "throw" ELSE "result", RetKind(w2))

\* UpdateImageBody with a failed metadata write rethrown like the failures
\* of the other steps.
UpdateImageBodyMetaThrows(w, name, pre, delOk, addOk, wr) ==
  IF pre = "missing" \/ IndexOf(w.a.images, name) = 0
  THEN [Out(w, "result", "none") EXCEPT !.error = (pre = "missing")]
  ELSE IF pre \in {"initThrow", "rotateThrow", "sizesThrow", "metaFail"}
  THEN [Out(w, "throw", "none") EXCEPT !.fault = pre]
  ELSE LET ws == IF pre = "rotated"
                 THEN [w EXCEPT !.a.images = generateSizes(@, name)] ELSE w
           w2 == SaveBody(ws, delOk, addOk, wr)
       IN [Out(w2, "result", RetKind(w2)) EXCEPT !.error = w2.thrown]

\* updateImage(image, remakeThumb), lines 876-1043.  pre is how the steps
\* before save() end: "missing" (no image), "initThrow" (exiftool init
\* fails), "rotateThrow" (rotation or thumbnail embedding fails),
\* "sizesThrow" (generateSizes fails, lines 1017-1032: rethrown),
\* "metaFail" (writeMetadataToTag fails, lines 943-948: result.error is
\* set), "rotated" (image.rotateFullSize was given and the sizes were
\* regenerated) or "ok".  A save() that throws is added to result.error.
UpdateImageBody(w, name, pre, delOk, addOk, wr) ==
  IF pre = "missing" \/ IndexOf(w.a.images, name) = 0
  THEN [Out(w, "result", "none") EXCEPT !.error = (pre = "missing")]
  ELSE IF pre \in {"initThrow", "rotateThrow", "sizesThrow"}
  THEN [Out(w, "throw", "none") EXCEPT !.fault = pre]
  ELSE LET ws == IF pre = "rotated"
                 THEN [w EXCEPT !.a.images = generateSizes(@, name)] ELSE w
           w2 == SaveBody(ws, delOk, addOk, wr)
       IN [Out(w2, "result", RetKind(w2)) EXCEPT
             !.fault = IF pre = "metaFail" THEN pre ELSE "none",
             !.error = (pre = "metaFail" \/ w2.thrown)]

\* deleteImage(imageName), lines 396-455.  pre: "missing" (no imageName),
\* "readdirThrow" or "ok".  The fs.rm calls run in callbacks nothing waits
\* for: their failures reach no catch, and `deleted` holds whatever the
\* callbacks that have finished by the return have assigned (rmSeen).
DeleteImageBody(w, name, pre, rmSeen, delOk, addOk, wr) ==
  IF pre = "missing" THEN Out(w, "throw", "none")
  ELSE IF IndexOf(w.a.images, name) = 0 THEN Out(w, "false", "none")
  ELSE IF pre = "readdirThrow" THEN Out(w, "throw", "none")
  ELSE LET w1 == [w EXCEPT !.a.images = Splice(@, IndexOf(@, name))]
           w2 == SaveBody(w1, delOk, addOk, wr)
       IN Out(w2, IF w2.thrown \/ ~w2.ok THEN "throw"
                  ELSE IF rmSeen THEN "true" ELSE "false",
              RetKind(w2))

\* ----------------------------------------------------------- deleteAlbum
\* deleteAlbum(), lines 469-482: the stream entry.  `deleted` is the local
\* variable of the method: "undefined" until some step sets it to false.
\* The log records the step with the value removeFromRedisStream returned.
DeleteStreamStep(w, delOk) ==
  LET w1 == removeFromRedisStream(w, delOk)
  IN [w1 EXCEPT !.log = Append(@, Entry("removeFromRedisStream", w1.ok, w.a.streamId)),
                !.deleted = IF w1.ok THEN "undefined" ELSE "false"]

\* deleteAlbum(), lines 483-488: fs.rm of the album directory.  The result
\* of fs.rm (undefined) is assigned to `deleted`; a failure returns false
\* from the method at once.
DeleteDirStep(w, rmOk) ==
  IF rmOk
  THEN [w EXCEPT !.log = Append(@, Entry("fs.rm", TRUE, NoId)),
                 !.dir = FALSE, !.deleted = "undefined"]
  ELSE [w EXCEPT !.log = Append(@, Entry("fs.rm", FALSE, NoId)),
                 !.deleted = "false", !.returned = TRUE]

\* deleteAlbum(), lines 489-499: deleteOne by id.  new ObjectId(null)
\* generates an id no document has.  dl is the reply of the store: "ok" or
\* "throw"; without a collection handle the call itself throws.
DeleteDocStep(w, dl) ==
  IF w.returned THEN w
  ELSE IF ~w.a.hasDb
  THEN [w EXCEPT !.log = Append(@, Entry("deleteOne", FALSE, w.a.albumId)),
                 !.deleted = "false"]
  ELSE LET id == IF w.a.albumId = NoId THEN w.oid ELSE w.a.albumId
           w1 == IF w.a.albumId = NoId THEN [w EXCEPT !.oid = @ + 1] ELSE w
           hit == {d \in w.store : d._id = id}
       IN IF dl = "throw"
          THEN [w1 EXCEPT !.log = Append(@, Entry("deleteOne", FALSE, id)),
                          !.deleted = "false"]
          ELSE [w1 EXCEPT !.log = Append(@, Entry("deleteOne", hit # {}, id)),
                          !.store = @ \ hit,
                          !.deleted = IF hit = {} THEN "false" ELSE @]

\* deleteAlbum(), lines 464-501; the method returns (deleted === undefined).
DeleteAlbumBody(w, delOk, rmOk, dl) ==
  LET w3 == DeleteDocStep(DeleteDirStep(DeleteStreamStep(w, delOk), rmOk), dl)
  IN [w3 EXCEPT !.ok = (w3.deleted = "undefined")]

\* ----------------------------------------------------------------- init
\* A path is the sequence of its segments: <<>> is the file-system root.
\* Paths are absolute and normalised, as path.resolve returns them (the
\* constructor, line 138, and init, lines 198-203).
Segs == {"public", "a"}
Paths == UNION {[1..n -> Segs] : n \in 0..MaxDepth}

\* A path as a string: the sequence of its separators and segments.
Render(p) ==
  IF p = <<>> THEN <<"/">>
  ELSE [i \in 1..(2 * Len(p)) |-> IF i % 2 = 1 THEN "/" ELSE p[i \div 2]]

\* path.parse(p).dir
Parent(p) == IF p = <<>> THEN <<>> ELSE SubSeq(p, 1, Len(p) - 1)

\* The number of leading segments from and to share.
Common(from, to) ==
  CHOOSE c \in 0..Len(from) :
    /\ c <= Len(to)
    /\ \A i \in 1..c : from[i] = to[i]
    /\ (c < Len(from) /\ c < Len(to)) => from[c + 1] # to[c + 1]

\* path.relative(from, to) as a string: one ".." for every segment of from
\* below the common ancestor, then the segments of to below it, joined by
\* separators; the empty string when the two are the same path.
Relative(from, to) ==
  LET c == Common(from, to)
      ups == Len(from) - c
      parts == [i \in 1..(ups + Len(to) - c) |->
                  IF i <= ups THEN ".." ELSE to[c + i - ups]]
  IN IF parts = <<>> THEN <<>>
     ELSE [i \in 1..(2 * Len(parts) - 1) |->
             IF i % 2 = 1 THEN parts[(i + 1) \div 2] ELSE "/"]

\* #resolveAlbumDirPath(), lines 606-622: the test that does not throw,
\* `${rootDir}/${pathDiff}` === albumDir.
resolveAlbumDirPath(rootDir, albumDir) ==
  Render(rootDir) \o <<"/">> \o Relative(rootDir, albumDir) = Render(albumDir)

\* init, lines 220-221: /public\/(?<p>.*)$/ finds a match in the parent
\* directory of the album, a segment "public" that is not its last.
HasPublic(p) == \E i \in 1..(Len(p) - 1) : p[i] = "public"

\* The configuration and the environment of a call of init(), as
\* initBody below reads them.
InitArgs(hasRoot, rootDir, albumDir, imageUrl, imgs, preview, skipSizes, skipMeta, rootFail, dirFail, listing, metaFail, sizeFails) ==
  [op |-> "init", hasRoot |-> hasRoot, rootDir |-> rootDir,
   albumDir |-> albumDir, imageUrl |-> imageUrl, images |-> imgs,
   preview |-> preview, skipSizes |-> skipSizes, skipMeta |-> skipMeta,
   rootFail |-> rootFail, dirFail |-> dirFail, listing |-> listing,
   metaFail |-> metaFail, sizeFails |-> sizeFails]

\* What init() returned: unhandled holds the names whose generateSizes call
\* rejected with nothing to handle it, magick those of them the image
\* processor failed for.
InitResult(ret, error, cause, imgs, unhandled, magick) ==
  [op |-> "init", ret |-> ret, error |-> error, cause |-> cause,
   images |-> imgs, unhandled |-> unhandled, magick |-> magick]

\* init(dirPath, skip), lines 195-291, of an album built with the
\* configuration a and meeting the environment a describes:
\*   hasRoot, rootDir   config.rootDir (resolved by the constructor)
\*   albumDir           the resolved album directory
\*   imageUrl           config.albumImageUrl is given
\*   images             config.images, a list of descriptors
\*   preview            config.previewImage is given
\*   skipSizes, skipMeta  the skip parameter
\*   rootFail           the root directory is missing and mkdir fails
\*   dirFail            opendir (or readdir) of the album directory fails
\*   listing            the file names readdir returns
\*   metaFail           exiftool fails
\*   sizeFails          the names generateSizes fails for
\* It resolves to the album ("album") or rejects.  The size generation
\* runs in callbacks of forEach that nothing awaits: their rejections are
\* left unhandled, and the descriptors have no variants yet when init
\* resolves.
initBody(a) ==
  LET rootDir == IF a.hasRoot THEN a.rootDir ELSE Parent(a.albumDir)
      fromDisk == a.images = <<>>
      imgs == IF fromDisk
              THEN [i \in DOMAIN a.listing |-> Descriptor(a.listing[i], FALSE)]
              ELSE a.images
      names == {imgs[i].name : i \in DOMAIN imgs}
      \* bare file names have no name property: generateSizes(undefined)
      bare == fromDisk /\ a.skipMeta
  IN CASE ~a.imageUrl /\ ~HasPublic(Parent(a.albumDir)) ->
            InitResult("reject", "TypeError", "none", <<>>, {}, {})
       [] a.rootFail ->
            InitResult("reject", "iterator", "mkdir", <<>>, {}, {})
       [] ~resolveAlbumDirPath(rootDir, a.albumDir) ->
            InitResult("reject", "resolve", "notInRoot", <<>>, {}, {})
       [] a.dirFail ->
            InitResult("reject", "setdir", "opendir", <<>>, {}, {})
       [] ~a.skipMeta /\ fromDisk /\ imgs # <<>> /\ a.metaFail ->
            InitResult("reject", "exiftool", "exiftool", <<>>, {}, {})
       [] ~a.skipSizes /\ ~a.preview /\ imgs = <<>> ->
            InitResult("reject", "resize", "TypeError", <<>>, {}, {})
       [] OTHER ->
            InitResult("album", "none", "none", imgs,
                       IF a.skipSizes THEN {}
                       ELSE IF bare THEN names
                       ELSE names \cap a.sizeFails,
                       IF a.skipSizes \/ bare THEN {}
                       ELSE names \cap a.sizeFails)

\* ------------------------------------------------------- root directory
\* What is at the path of the root directory: a directory ("dir"), a file
\* ("file") or nothing ("absent").
\*
\* #checkRootDirExists(), lines 631-663: false when fs.stat fails, and
\* stats.isDirectory() otherwise.
checkRootDirExists(root) == root = "dir"

\* makeRootDir with a failed mkdir answered false instead of thrown.
makeRootDirQuiet(root, mkdirOk) ==
  IF root = "absent" /\ mkdirOk
  THEN [thrown |-> FALSE, root |-> "dir"]
  ELSE [thrown |-> FALSE, root |-> root]

\* #makeRootDir(dirPath), lines 673-689: fs.mkdir(path, {recursive: true}),
\* which creates the missing directories of the path, and fails when it is
\* not allowed to (mkdirOk) or when a file is in the way; the failure is
\* thrown again.
makeRootDir(root, mkdirOk) ==
  IF root = "absent" /\ mkdirOk
  THEN [thrown |-> FALSE, root |-> "dir"]
  ELSE [thrown |-> TRUE, root |-> root]

\* init(), lines 206-236 and what follows: the root directory the album
\* ends with, what is at its path afterwards, and how init() returns for
\* the environment a:
\*   cfg        the arguments of initBody that do not depend on the disk
\*   root       what is at the path of the root directory
\*   mkdirOk    mkdir is allowed to create it
\*   albumGone  the album directory is missing although the root exists
\* The album directory cannot exist below a root that does not.
initRoot(a) ==
  LET rootDir == IF a.cfg.hasRoot THEN a.cfg.rootDir ELSE Parent(a.cfg.albumDir)
      early == ~a.cfg.imageUrl /\ ~HasPublic(Parent(a.cfg.albumDir))
      made == IF checkRootDirExists(a.root)
              THEN [thrown |-> FALSE, root |-> a.root]
              ELSE makeRootDir(a.root, a.mkdirOk)
      r == initBody([a.cfg EXCEPT !.rootFail = made.thrown,
                                  !.dirFail = a.root # "dir" \/ a.albumGone])
  IN [op |-> "init", ret |-> r.ret, error |-> r.error, rootDir |-> rootDir,
      root |-> IF early THEN a.root ELSE made.root]

\* ---------------------------------------------------------- rehydration
\* A stored document with all its fields.  A string field that is null
\* holds "null"; a key the document does not have holds "absent" (AbsentSid
\* where the values are ids).  keywords is a list without repetitions (save
\* writes Array.from of a Set).
\*
\* save(), lines 557-573: the document an updateOne with this $set leaves
\* for an album with the fields f.
UpdateOneDoc(f) ==
  [_id |-> f._id, streamId |-> f.streamId, dir |-> f.dir, slug |-> f.slug,
   imageUrl |-> f.imageUrl, creator |-> f.creator, name |-> f.name,
   url |-> f.url, previewImage |-> f.previewImage,
   description |-> f.description, keywords |-> f.keywords,
   public |-> f.public, images |-> f.images, post_id |-> f.postId,
   postId |-> AbsentSid]

\* createAlbumJson(), lines 1356-1374: the JSON of an album with the
\* fields f (also the document insertOne stores, line 552).  It has no
\* streamId, previewImage or post_id key, and a postId key when postId is
\* set.
AlbumJsonOf(f) ==
  [_id |-> f._id, streamId |-> AbsentSid, dir |-> f.dir, slug |-> f.slug,
   imageUrl |-> f.imageUrl, creator |-> f.creator, name |-> f.name,
   url |-> f.url, previewImage |-> "absent",
   description |-> f.description, keywords |-> f.keywords,
   public |-> f.public, images |-> f.images, post_id |-> AbsentSid,
   postId |-> IF f.postId = NoId THEN AbsentSid ELSE f.postId]

\* x ?? y for string fields and for ids.
OrElse(x, y) == IF x \in {"null", "absent"} THEN y ELSE x
IdOrElse(x, y) == IF x \in {NoId, AbsentSid} THEN y ELSE x

\* new Set(keywords) and Array.from of it: the first occurrences, in order.
Dedupe(ks) ==
  LET keep == {i \in DOMAIN ks : \A j \in 1..(i - 1) : ks[j] # ks[i]}
      Nth(n) == CHOOSE i \in keep : Cardinality({j \in keep : j <= i}) = n
  IN [n \in 1..Cardinality(keep) |-> ks[Nth(n)]]

\* new Album(found), lines 120-162: the fields the constructor takes from a
\* found document handed to it as its configuration.  The post reference is
\* read from the key postId.
Rehydrate(doc) ==
  [_id |-> doc._id, streamId |-> IdOrElse(doc.streamId, NoSid),
   dir |-> doc.dir, slug |-> OrElse(doc.slug, "null"),
   imageUrl |-> OrElse(doc.imageUrl, "null"),
   creator |-> OrElse(doc.creator, "null"), name |-> OrElse(doc.name, "null"),
   url |-> OrElse(doc.url, "null"),
   previewImage |-> OrElse(doc.previewImage, "null"),
   description |-> OrElse(doc.description, "null"),
   keywords |-> Dedupe(doc.keywords), public |-> doc.public,
   images |-> doc.images, postId |-> IdOrElse(doc.postId, NoId)]

\* init(), lines 216-224, with the sizes and the metadata skipped: what it
\* does to the fields.  A null url has the base name of the directory
\* appended to it ("null" + base, written "nullbase"); a null imageUrl is
\* computed from the directory ("fromdir").
InitFields(f) ==
  [f EXCEPT !.url = IF @ = "null" THEN "nullbase" ELSE @,
            !.imageUrl = IF @ = "null" THEN "fromdir" ELSE @]

\* getJson(), lines 1529-1534, after init() (init caches the JSON it
\* creates, lines 281-284).
getJson(f) == AlbumJsonOf(f)

\* --------------------------------------------------------------- Albums
\* The static methods of Albums (src/Albums.js).  A stored document is
\*   [_id, name, slug, creator, public, images]
\* with ids 1..MaxDocs; the name and the slug of a document are numbered
\* like its id.  A missing parameter is 0 (an empty owner name is ""), a
\* string that is no ObjectId is Malformed.
Malformed == -1

QResult(op, ret) ==
  [op |-> op, ret |-> ret, id |-> NoId, images |-> <<>>, buckets |-> {},
   skip |-> [sizes |-> FALSE, metadata |-> FALSE]]

\* getById / getByName / getBySlug, lines 34-58, 72-96, 110-134: findOne on
\* the field, then new Album(found).init(null, skip).  Everything up to the
\* call of init() runs inside the try, whose catch returns false: a failed
\* lookup, an id that is no ObjectId, and the TypeError of reading
\* found.keywords when nothing was found.  The promise init() returns is
\* returned without being awaited: when init() rejects, the method rejects.
\* a.dirFail: the directory of the stored album is gone.
Lookup(a, field) ==
  IF ~a.hasMongo \/ a.key = 0 THEN QResult(a.op, "false")
  ELSE IF a.lookupFail \/ a.key = Malformed THEN QResult(a.op, "false")
  ELSE LET hit == {d \in a.store : d[field] = a.key}
       IN IF hit = {} THEN QResult(a.op, "false")
          ELSE LET found == CHOOSE d \in hit : TRUE
                   skip == [sizes |-> TRUE, metadata |-> TRUE]
                   r == initBody(InitArgs(FALSE, <<>>, <<"public", "a">>, TRUE,
                                          found.images, TRUE, skip.sizes,
                                          skip.metadata, FALSE, a.dirFail,
                                          <<>>, FALSE, {}))
               IN IF r.ret = "album"
                  THEN [QResult(a.op, "album") EXCEPT
                          !.id = found._id, !.images = r.images, !.skip = skip]
                  ELSE QResult(a.op, "throw")

getById(a) == Lookup(a, "_id")
getByName(a) == Lookup(a, "name")
getBySlug(a) == Lookup(a, "slug")

\* getImageList without the creator in the filter.
getImageListAnyOwner(a) ==
  IF ~a.hasMongo \/ a.key = 0 \/ a.owner = "" THEN QResult(a.op, "throw")
  ELSE IF a.key = Malformed THEN QResult(a.op, "false")
  ELSE IF a.lookupFail THEN QResult(a.op, "undefined")
  ELSE LET found == {d \in a.store : d._id = a.key}
       IN [QResult(a.op, "list") EXCEPT
             !.images = IF found = {} THEN <<>>
                        ELSE (CHOOSE d \in found : TRUE).images]

\* getImageList(mongo, aId, ownerName), lines 148-177: find with the filter
\* {_id, creator: ownerName} and the images projected.  A missing parameter
\* throws, an id that is no ObjectId returns false, and a failed find
\* leaves the images it returns undefined.
getImageList(a) ==
  IF ~a.hasMongo \/ a.key = 0 \/ a.owner = "" THEN QResult(a.op, "throw")
  ELSE IF a.key = Malformed THEN QResult(a.op, "false")
  ELSE IF a.lookupFail THEN QResult(a.op, "undefined")
  ELSE LET found == {d \in a.store : d._id = a.key /\ d.creator = a.owner}
       IN [QResult(a.op, "list") EXCEPT
             !.images = IF found = {} THEN <<>>
                        ELSE (CHOOSE d \in found : TRUE).images]

\* The $bucket stage of list, lines 203-221: groupBy $public with the
\* boundaries [false, true) and the default bucket 'public'; then the
\* $match that keeps the buckets with a count above 0.
Buckets(docs) ==
  LET inRange == {d \in docs : d.public = FALSE}
      Bucket(id, ds) ==
        [_id |-> id, count |-> Cardinality(ds),
         albums |-> {[id |-> d._id, public |-> d.public, name |-> d.name,
                      slug |-> d.slug] : d \in ds}]
  IN {b \in {Bucket("false", inRange), Bucket("public", docs \ inRange)} :
        b.count > 0}

\* list without the $match stage on the creator.
listEveryOwner(a) ==
  IF ~a.hasMongo \/ a.owner = "" THEN QResult(a.op, "false")
  ELSE IF a.lookupFail THEN QResult(a.op, "throw")
  ELSE [QResult(a.op, "buckets") EXCEPT !.buckets = Buckets(a.store)]

\* list(mongo, user), lines 190-239: the aggregation $match {creator: user},
\* $bucket, $match {count > 0}.  A failed aggregation is not caught.
list(a) ==
  IF ~a.hasMongo \/ a.owner = "" THEN QResult(a.op, "false")
  ELSE IF a.lookupFail THEN QResult(a.op, "throw")
  ELSE [QResult(a.op, "buckets") EXCEPT
          !.buckets = Buckets({d \in a.store : d.creator = a.owner})]

\* ------------------------------------------------------------ metadata
\* The album directory of init(dir) holds at most MaxFiles files, numbered
\* 1..MaxFiles; readdir lists them in any order, each once.
Listings ==
  UNION {{l \in [1..n -> 1..MaxFiles] : \A i, j \in 1..n : l[i] = l[j] => i = j} :
           n \in 0..MaxFiles}

\* metadata maps a file to the record exiftool extracted for it: none
\* ("none"), or one with a title, keywords and a creator ("full").
\* getMetadata(), lines 1071-1113, with the record find() did not find
\* dropped instead of replaced by {}.
getMetadataDropsUnmatched(imgs, metadata, owner) ==
  LET keep == {i \in DOMAIN imgs : metadata[imgs[i]] # "none"}
      Nth(n) == CHOOSE i \in keep : Cardinality({j \in keep : j <= i}) = n
      One(f) == [name |-> f,
                 title |-> IF metadata[f] = "full" THEN "title" ELSE "undefined",
                 keywords |-> IF metadata[f] = "full" THEN <<"k">> ELSE <<>>,
                 creator |-> IF metadata[f] = "full" THEN "author" ELSE owner,
                 sized |-> FALSE]
  IN [n \in 1..Cardinality(keep) |-> One(imgs[Nth(n)])]

\* getMetadata(), lines 1053-1121, for the file names imgs readdir listed
\* (init, line 249) and the records exiftool extracted: one descriptor is
\* pushed for every name in the order of the list, from the record whose
\* File:FileName is the name, or from {} when there is none (line 1071).
\* title is IPTC:ObjectName ?? XMP:Title (undefined without either),
\* keywords is Composite:Keywords ?? [], creator is Composite:Creator ??
\* the album owner.  med and sml are null: no variants yet.
getMetadata(imgs, metadata, owner) ==
  LET One(f) == [name |-> f,
                 title |-> IF metadata[f] = "full" THEN "title" ELSE "undefined",
                 keywords |-> IF metadata[f] = "full" THEN <<"k">> ELSE <<>>,
                 creator |-> IF metadata[f] = "full" THEN "author" ELSE owner,
                 sized |-> FALSE]
  IN [i \in DOMAIN imgs |-> One(imgs[i])]

\* ---------------------------------------------------------- constructor
\* A configuration map as the constructor reads it.  A handle that is not
\* given is "absent"; config.new, config.public and config.images hold
\* <<v>> when given with the value v and <<>> when not given.  collection: "named" is a collection handle (it
\* has a collectionName), "plain" any other object.  mongo, db: "client" is
\* a MongoClient (it has db()), "handle" a collection handle given under
\* that key (it has s.namespace.collection).
Handles == {"absent", "client", "handle"}
Config(collection, mongo, db, new, public, imgs) ==
  [op |-> "new", collection |-> collection, mongo |-> mongo, db |-> db,
   new |-> new, public |-> public, images |-> imgs]

\* x ?? y for the handles, and for a key that holds a boolean or a list.
Handle(x, y) == IF x = "absent" THEN y ELSE x
Given(x, y) == IF x = <<>> THEN y ELSE x[1]

\* new Album(config), lines 120-162: the private fields it sets.  Lines
\* 127-136: without a collection and without a mongo handle that carries a
\* collection, the collection is taken from this.#mongo.db(...), and
\* this.#mongo is null when neither config.mongo nor config.db is given:
\* the constructor throws a TypeError.
constructor(c) ==
  LET mongo == Handle(c.mongo, c.db)
      imgs == Given(c.images, <<>>)
      made(hasDb) == [op |-> "new", ret |-> "album", hasDb |-> hasDb,
                      newAlbum |-> Given(c.new, FALSE),
                      public |-> Given(c.public, FALSE),
                      images |-> imgs, numberOfImages |-> Len(imgs)]
  IN IF c.collection = "absent" /\ mongo # "handle"
     THEN IF mongo = "absent"
          THEN [op |-> "new", ret |-> "throw", hasDb |-> FALSE,
                newAlbum |-> FALSE, public |-> FALSE, images |-> <<>>,
                numberOfImages |-> 0]
          ELSE made(TRUE)
     ELSE made(c.collection = "named")

\* ---------------------------------------------------------------- state
Bool == {TRUE, FALSE}

\* new Album(config), lines 120-162: config.new, config.albumId,
\* config.streamId, config.public and the two client handles are
\* independent keys.  A configured streamId is the id of this album's entry
\* in the stream, a configured albumId may or may not have a stored document
\* (as written by an earlier save of a rehydrated album).  config.images
\* is the images list of the stored document, or empty, and
\* _numberOfImages its length (line 160).  The handles, the stream id and
\* the images list are drawn from the given sets.
Construct(dbs, redises, sids, lists) ==
  \E new \in Bool, id \in {NoId, 1}, sid \in sids, pub \in Bool,
     hasDb \in dbs, hasRedis \in redises, stored \in Bool, imgs \in lists :
    /\ sid # NoSid => id # NoId
    /\ stored => id # NoId
    /\ album = [newAlbum |-> new, albumId |-> id, streamId |-> sid,
                public |-> pub, hasDb |-> hasDb, hasRedis |-> hasRedis,
                albumJson |-> NoJson, cfgId |-> id, images |-> imgs,
                numberOfImages |-> Len(imgs)]
    /\ stream = IF sid = NoSid THEN {} ELSE {[sid |-> sid, album |-> id]}
    /\ store = IF stored
               THEN {[_id |-> id, public |-> pub, streamId |-> sid,
                      images |-> imgs]}
               ELSE {}
    /\ dir = TRUE
    /\ nextOid = 2
    /\ nextSid = 2
    /\ call = [op |-> "new", ret |-> "none", save |-> "none",
               saved |-> NoSaved, log |-> <<>>, retry |-> FALSE, fault |-> "none", error |-> FALSE,
               name |-> "none"]
    /\ savedOk = FALSE
    /\ iter = NoIter
    /\ inflight = {}

\* No call of init() or of a static method is looked at.
NoCall == args = <<>> /\ result = <<>>

\* An album of any configuration, without images.
Init ==
  /\ Construct(Bool, Bool, {NoSid, 1}, {<<>>})
  /\ files = {}
  /\ pendingRm = {}
  /\ NoCall

\* A public album with a collection and without a redis client (as the
\* album the save test of test/test.js builds), with or without a first
\* image.
InitImages ==
  /\ Construct({TRUE}, {FALSE}, {NoSid}, {<<>>, <<Descriptor("a", TRUE)>>})
  /\ album.public
  /\ files = {album.images[i].name : i \in DOMAIN album.images}
  /\ pendingRm = {}
  /\ NoCall

Commit(w) ==
  /\ album' = w.a
  /\ stream' = w.stream
  /\ store' = w.store
  /\ dir' = w.dir
  /\ nextOid' = w.oid
  /\ nextSid' = w.sid

\* The number of ObjectIds a save() of album a generates.
OidsOfSave(a) == IF a.newAlbum THEN 1 ELSE IF a.albumId = NoId THEN 2 ELSE 0

\* The replies a save() of album a waits for: the reply of xDel when there
\* is an entry to delete, of xAdd when the album goes to the stream, of the
\* document write when there is a collection (insertOne has no reply with
\* zero counts).  One choice for a call that is not issued, and for a
\* handler that runs no save().
SaveInputs(a, runs) ==
  LET dels == IF runs /\ a.streamId # NoSid /\ a.hasRedis THEN Bool ELSE {TRUE}
      adds == IF runs /\ a.public /\ a.hasRedis /\ (a.newAlbum \/ a.albumId # NoId)
              THEN Bool ELSE {TRUE}
      wrs == IF runs /\ a.hasDb
             THEN IF a.albumId = NoId /\ ~a.newAlbum
                  THEN {"ok", "throw"}
                  ELSE {"ok", "noop", "throw"}
             ELSE {"ok"}
  IN {<<d, x, wr>> : d \in dels, x \in adds, wr \in wrs}

\* What a save() of album a needs of the id generators.
SaveAllowed(a) ==
  /\ nextOid + OidsOfSave(a) - 1 <= MaxOid
  /\ a.public => nextSid <= MaxSid

\* album.save()
Save ==
  \E in \in SaveInputs(album, TRUE) :
    /\ SaveAllowed(album)
    /\ LET w == SaveBody(World(album, stream, store, dir, nextOid, nextSid),
                         in[1], in[2], in[3])
       IN /\ Commit(w)
          /\ call' = [op |-> "save", ret |-> RetKind(w), save |-> RetKind(w),
                      saved |-> w.saved, log |-> w.log,
                      retry |-> (call.save = "throw"),
                      fault |-> "none", error |-> FALSE,
               name |-> "none"]
          /\ savedOk' = (savedOk \/ RetKind(w) = "saved")
          /\ UNCHANGED <<files, pendingRm, args, result, iter, inflight>>

\* album.deleteAlbum()
DeleteAlbum ==
  \E delOk \in IF album.streamId # NoSid /\ album.hasRedis THEN Bool ELSE {TRUE},
     rmOk \in Bool,
     dl \in IF album.hasDb THEN {"ok", "throw"} ELSE {"throw"} :
    /\ album.albumId = NoId => nextOid <= MaxOid
    /\ LET w == DeleteAlbumBody(World(album, stream, store, dir, nextOid, nextSid),
                                delOk, rmOk, dl)
       IN /\ Commit(w)
          /\ call' = [op |-> "deleteAlbum",
                      ret |-> IF w.ok THEN "true" ELSE "false",
                      save |-> "none", saved |-> NoSaved, log |-> w.log,
                      retry |-> FALSE, fault |-> "none", error |-> FALSE,
               name |-> "none"]
          /\ files' = IF w.dir THEN files ELSE {}
          /\ pendingRm' = IF w.dir THEN pendingRm ELSE {}
          /\ UNCHANGED <<savedOk, args, result, iter, inflight>>

\* album.public = isPublic (the setter of line 1525)
SetPublic ==
  \E p \in Bool :
    /\ album' = [album EXCEPT !.public = p]
    /\ call' = [op |-> "setPublic", ret |-> "none", save |-> "none",
                saved |-> NoSaved,
                log |-> <<>>, retry |-> FALSE, fault |-> "none", error |-> FALSE,
               name |-> "none"]
    /\ UNCHANGED <<stream, store, dir, nextOid, nextSid, savedOk, files,
                   pendingRm, args, result, iter, inflight>>

\* album.redisClient = client (the setter of line 1376)
SetRedisClient ==
  /\ album' = [album EXCEPT !.hasRedis = TRUE]
  /\ call' = [op |-> "setRedisClient", ret |-> "none", save |-> "none",
              saved |-> NoSaved,
              log |-> <<>>, retry |-> FALSE, fault |-> "none", error |-> FALSE,
               name |-> "none"]
  /\ UNCHANGED <<stream, store, dir, nextOid, nextSid, savedOk, files,
                 pendingRm, args, result, iter, inflight>>

HandlerCall(op, o) ==
  [op |-> op, ret |-> o.ret, save |-> o.save, saved |-> o.w.saved,
   log |-> o.w.log,
   retry |-> (o.save # "none" /\ call.save = "throw"),
   fault |-> o.fault, error |-> o.error, name |-> "none"]

\* The name a handler was called with; none when the parameter is missing.
Arg(pre, name) == IF pre = "missing" THEN "none" ELSE name

\* How the steps of addImage / updateImage before save() can end.
AddPres == {"missing", "metaThrow", "thumbThrow", "sizesThrow", "skipped", "ok"}
UpdatePres ==
  {"missing", "initThrow", "rotateThrow", "sizesThrow", "metaFail", "rotated",
   "ok"}
\* How an fs.rm call deleteImage started stands when deleteImage returns:
\* the file is removed, the call has failed, or it has not settled yet.
RmOutcomes == {"done", "failed", "pending"}

\* album.addImage(newImage, skipSizes), the steps before save() ending in
\* one of pres.  generateSizes reads the file in the album directory and
\* writes its variants there.
AddImageOf(pres) ==
  \E name \in Names, pre \in pres :
    \E in \in SaveInputs(album, pre \in {"skipped", "ok"}) :
      /\ Len(album.images) < MaxImages
      /\ SaveAllowed(album)
      /\ LET o == AddImageBody(World(album, stream, store, dir, nextOid, nextSid),
                               name, pre, in[1], in[2], in[3])
         IN /\ Commit(o.w)
            /\ call' = [HandlerCall("addImage", o) EXCEPT !.name = Arg(pre, name)]
            /\ savedOk' = (savedOk \/ o.save = "saved")
            /\ files' = IF pre = "ok" THEN files \cup {name} ELSE files
            /\ UNCHANGED <<pendingRm, args, result, iter, inflight>>

AddImage == AddImageOf(AddPres)

\* album.updateImage(image, remakeThumb)
UpdateImageOf(pres) ==
  \E name \in Names, pre \in pres :
    \E in \in SaveInputs(album, pre \in {"metaFail", "rotated", "ok"}
                                /\ IndexOf(album.images, name) # 0) :
      /\ SaveAllowed(album)
      /\ LET o == UpdateImageBody(World(album, stream, store, dir, nextOid, nextSid),
                                  name, pre, in[1], in[2], in[3])
         IN /\ Commit(o.w)
            /\ call' = [HandlerCall("updateImage", o) EXCEPT !.name = Arg(pre, name)]
            /\ savedOk' = (savedOk \/ o.save = "saved")
            /\ UNCHANGED <<files, pendingRm, args, result, iter, inflight>>

UpdateImage == UpdateImageOf(UpdatePres)

\* album.deleteImage(imageName); readdir fails once the directory is gone.
\* An fs.rm is started for every file of the directory the expression
\* matches, and each stands as one of outs when deleteImage returns.
DeleteImageOf(outs) ==
  \E name \in Names, pre \in {"missing", "readdirThrow", "ok"} :
    LET runs == pre = "ok" /\ IndexOf(album.images, name) # 0
        hit == IF runs THEN Matching(files, name) ELSE {}
    IN \E rm \in [hit -> outs], in \in SaveInputs(album, runs) :
         /\ ~dir => pre # "ok"
         /\ SaveAllowed(album)
         /\ LET rmSeen == \E f \in hit : rm[f] = "done"
                o == DeleteImageBody(World(album, stream, store, dir, nextOid, nextSid),
                                     name, pre, rmSeen, in[1], in[2], in[3])
            IN /\ Commit(o.w)
               /\ call' = [HandlerCall("deleteImage", o) EXCEPT
                             !.name = Arg(pre, name),
                             !.fault = IF \E f \in hit : rm[f] = "failed"
                                       THEN "rmFail" ELSE "none"]
               /\ savedOk' = (savedOk \/ o.save = "saved")
               /\ files' = files \ {f \in hit : rm[f] = "done"}
               /\ pendingRm' = (pendingRm \ {f \in hit : rm[f] = "done"})
                                  \cup {f \in hit : rm[f] = "pending"}
               /\ UNCHANGED <<args, result, iter, inflight>>

DeleteImage == DeleteImageOf(RmOutcomes)

\* An fs.rm call that had not settled when deleteImage returned settles:
\* the file is removed, or the call fails (nothing handles the rejection).
RmSettles ==
  \E f \in pendingRm, ok \in Bool :
    /\ pendingRm' = pendingRm \ {f}
    /\ files' = IF ok THEN files \ {f} ELSE files
    /\ call' = [op |-> "rmSettles", ret |-> "none", save |-> "none",
                saved |-> NoSaved, log |-> <<>>, retry |-> FALSE,
                fault |-> "none", error |-> FALSE, name |-> "none"]
    /\ UNCHANGED <<album, stream, store, dir, nextOid, nextSid, savedOk, args,
                   result, iter, inflight>>

\* The persistence protocol: save(), deleteAlbum() and the setters.
Next == Save \/ DeleteAlbum \/ SetPublic \/ SetRedisClient

Spec == Init /\ [][Next]_vars

\* The image handlers, each of which ends with save(), and save() itself.
\* Here addImage never skips the sizes and the image processor does not
\* fail in it (every descriptor has its variants), and every fs.rm has
\* removed its file when deleteImage returns.
AddImageSized == AddImageOf({"metaThrow", "ok"})
DeleteImageSettled == DeleteImageOf({"done"})
NextImages == Save \/ AddImageSized \/ UpdateImage \/ DeleteImageSettled

SpecImages == InitImages /\ [][NextImages]_vars

\* A stored private album with one image, rehydrated with its collection
\* and no redis client; any of the image files may be in its directory.
InitFiles ==
  /\ Construct({TRUE}, {FALSE}, {NoSid}, {<<Descriptor("a", TRUE)>>})
  /\ ~album.newAlbum /\ ~album.public /\ store # {}
  /\ files \in SUBSET Names
  /\ pendingRm = {}
  /\ NoCall

\* addImage and deleteImage with every outcome of their steps, and the
\* file removals deleteImage leaves behind.
NextFiles == AddImage \/ DeleteImage \/ RmSettles

SpecFiles == InitFiles /\ [][NextFiles]_vars

\* The album instance a call of init() or of a static method is made on or
\* makes: it is not written to here.
Untouched ==
  /\ Construct({TRUE}, {FALSE}, {NoSid}, {<<>>})
  /\ ~album.newAlbum /\ ~album.public /\ album.albumId = NoId
  /\ files = {}
  /\ pendingRm = {}

\* album.init(dirPath, skip)
AlbumInit ==
  /\ result = <<>>
  /\ result' = initBody(args)
  /\ UNCHANGED <<album, stream, store, dir, nextOid, nextSid, call, savedOk,
                 files, pendingRm, args, iter, inflight>>

\* init() of a rehydrated album (its imageUrl and images are configured, the
\* sizes and the metadata are skipped) for every pair of a root directory,
\* given or not, and an album directory; the directories exist.
InitPaths ==
  /\ Untouched
  /\ \E hasRoot \in Bool, rootDir \in Paths, albumDir \in Paths :
       /\ ~hasRoot => rootDir = <<>>
       /\ args = InitArgs(hasRoot, rootDir, albumDir, TRUE,
                          <<Descriptor("a", TRUE)>>, TRUE, TRUE, TRUE,
                          FALSE, FALSE, <<>>, FALSE, {})
  /\ result = <<>>

SpecPaths == InitPaths /\ [][AlbumInit]_vars

\* init() of an album in public/a under the root public, built from disk or
\* from configured images, with every choice of the skipped steps and every
\* answer of the file system, of exiftool and of the image processor.
InitSizes ==
  /\ Untouched
  /\ \E imageUrl \in Bool, preview \in Bool, skipSizes \in Bool, skipMeta \in Bool,
        rootFail \in Bool, dirFail \in Bool, metaFail \in Bool,
        imgs \in {<<>>, <<Descriptor("a", FALSE)>>,
                  <<Descriptor("a", TRUE), Descriptor("b", FALSE)>>},
        listing \in {<<>>, <<"a">>, <<"a", "b">>},
        sizeFails \in SUBSET Names :
       args = InitArgs(TRUE, <<"public">>, <<"public", "a">>, imageUrl, imgs,
                       preview, skipSizes, skipMeta, rootFail, dirFail,
                       listing, metaFail, sizeFails)
  /\ result = <<>>

SpecInit == InitSizes /\ [][AlbumInit]_vars

\* The album fields a stored document is written from: the scalar fields
\* that are plain strings are fixed, the ones the round trip treats
\* specially vary.
Fields ==
  {[_id |-> 1, streamId |-> sid, dir |-> <<"public", "a">>, slug |-> "s",
    imageUrl |-> iu, creator |-> "o", name |-> "n", url |-> u,
    previewImage |-> pv, description |-> d, keywords |-> ks, public |-> pub,
    images |-> imgs, postId |-> post] :
     sid \in {NoSid, 1}, iu \in {"null", "i"}, u \in {"null", "u"},
     pv \in {"null", "p"}, d \in {"null", "d"},
     ks \in {<<>>, <<"k">>, <<"k", "l">>}, pub \in Bool,
     imgs \in {<<>>, <<Descriptor("a", TRUE)>>}, post \in {NoId, 1}}

\* A document as save() writes it: by updateOne, or by insertOne (an album
\* without id that is not new, which has no stream entry).
InitRoundTrip ==
  /\ Untouched
  /\ \E f \in Fields, via \in {"updateOne", "insertOne"} :
       /\ via = "insertOne" => f.streamId = NoSid
       /\ args = [op |-> "getById", via |-> via,
                  doc |-> IF via = "updateOne" THEN UpdateOneDoc(f)
                          ELSE AlbumJsonOf(f)]
  /\ result = <<>>

\* new Album(found).init(null, {sizes: true, metadata: true}), then
\* getJson().  The directory of a stored album exists.
LoadAndGetJson ==
  /\ result = <<>>
  /\ args.op = "getById"
  /\ LET f == Rehydrate(args.doc)
         r == initBody(InitArgs(FALSE, <<>>, f.dir, f.imageUrl # "null",
                                f.images, f.previewImage # "null", TRUE, TRUE,
                                FALSE, FALSE, <<>>, FALSE, {}))
     IN result' = [op |-> "getJson", ret |-> r.ret,
                   json |-> IF r.ret = "album" THEN getJson(InitFields(f))
                            ELSE <<>>]
  /\ UNCHANGED <<album, stream, store, dir, nextOid, nextSid, call, savedOk,
                 files, pendingRm, args, iter, inflight>>

SpecRoundTrip == InitRoundTrip /\ [][LoadAndGetJson]_vars

\* updateOne(filter, {$set: ...}) on a stored document, lines 557-577: the
\* keys of $set are written, a key $set does not name (postId, which only
\* insertOne stores) is left as it is.
SetOnto(doc, f) == [UpdateOneDoc(f) EXCEPT !.postId = doc.postId]

\* new Album(found).init(null, {sizes: true, metadata: true}), then save()
\* with nothing changed and the store answering: the stored document
\* afterwards (its streamId as the album holds it before the stream is
\* synchronised).
LoadAndSaveAgain ==
  /\ result = <<>>
  /\ args.op = "getById"
  /\ LET f == Rehydrate(args.doc)
         r == initBody(InitArgs(FALSE, <<>>, f.dir, f.imageUrl # "null",
                                f.images, f.previewImage # "null", TRUE, TRUE,
                                FALSE, FALSE, <<>>, FALSE, {}))
     IN result' = [op |-> "resave", ret |-> r.ret,
                   doc |-> IF r.ret = "album"
                           THEN SetOnto(args.doc, InitFields(f)) ELSE <<>>]
  /\ UNCHANGED <<album, stream, store, dir, nextOid, nextSid, call, savedOk,
                 files, pendingRm, args, iter, inflight>>

SpecResave == InitRoundTrip /\ [][LoadAndSaveAgain]_vars

\* The collections of at most one document per id, whose creators, public
\* flags and images lists are drawn from the given sets.
Owners == {"alice", "bob"}
StoresOf(creators, publics, lists) ==
  LET Slots == [present : {TRUE}, creator : creators, public : publics,
                images : lists]
               \cup {[present |-> FALSE,
                       creator |-> CHOOSE c \in creators : TRUE,
                       public |-> CHOOSE b \in publics : TRUE,
                       images |-> CHOOSE l \in lists : TRUE]}
  IN {{[_id |-> i, name |-> i, slug |-> i, creator |-> g[i].creator,
        public |-> g[i].public, images |-> g[i].images] :
         i \in {k \in 1..MaxDocs : g[k].present}} :
        g \in [1..MaxDocs -> Slots]}

QArgs(op, hasMongo, st, key, owner, lookupFail, dirFail) ==
  [op |-> op, hasMongo |-> hasMongo, store |-> st, key |-> key,
   owner |-> owner, lookupFail |-> lookupFail, dirFail |-> dirFail]

\* A call of one of the static methods: of a lookup with any key, of
\* getImageList with any album id and owner name, of list with any user.
InitQueries ==
  /\ Untouched
  /\ \/ \E op \in {"getById", "getByName", "getBySlug"}, hasMongo \in Bool,
           st \in StoresOf({"alice"}, {FALSE}, {<<>>, <<Descriptor("a", TRUE)>>}),
           key \in {Malformed} \cup 0..MaxDocs, lookupFail \in Bool,
           dirFail \in Bool :
          /\ key = Malformed => op = "getById"
          /\ args = QArgs(op, hasMongo, st, key, "", lookupFail, dirFail)
     \/ \E hasMongo \in Bool,
           st \in StoresOf(Owners, {FALSE}, {<<>>, <<Descriptor("a", TRUE)>>}),
           key \in {Malformed} \cup 0..MaxDocs, owner \in {""} \cup Owners,
           lookupFail \in Bool :
          args = QArgs("getImageList", hasMongo, st, key, owner, lookupFail, FALSE)
     \/ \E hasMongo \in Bool, st \in StoresOf(Owners, Bool, {<<>>}),
           owner \in {""} \cup Owners, lookupFail \in Bool :
          args = QArgs("list", hasMongo, st, 0, owner, lookupFail, FALSE)
  /\ result = <<>>

Answer(op, r) ==
  /\ result = <<>>
  /\ args.op = op
  /\ result' = r
  /\ UNCHANGED <<album, stream, store, dir, nextOid, nextSid, call, savedOk,
                 files, pendingRm, args, iter, inflight>>

\* Albums.getById(mongo, id, redis)
GetById == Answer("getById", getById(args))
\* Albums.getByName(mongo, name, redis)
GetByName == Answer("getByName", getByName(args))
\* Albums.getBySlug(mongo, slug, redis)
GetBySlug == Answer("getBySlug", getBySlug(args))
\* Albums.getImageList(mongo, aId, ownerName)
GetImageList == Answer("getImageList", getImageList(args))
\* Albums.list(mongo, user)
List == Answer("list", list(args))

NextQueries == GetById \/ GetByName \/ GetBySlug \/ GetImageList \/ List

SpecQueries == InitQueries /\ [][NextQueries]_vars

\* new Album(config) for every choice of the handles, of config.new, of
\* config.public and of config.images.
InitConstruct ==
  /\ Untouched
  /\ \E collection \in {"absent", "plain", "named"}, mongo \in Handles,
        db \in Handles, new \in {<<>>, <<TRUE>>, <<FALSE>>},
        public \in {<<>>, <<TRUE>>, <<FALSE>>},
        imgs \in {<<>>, <<<<>>>>, <<<<Descriptor("a", TRUE)>>>>,
                  <<<<Descriptor("a", TRUE), Descriptor("b", TRUE)>>>>} :
       args = Config(collection, mongo, db, new, public, imgs)
  /\ result = <<>>

\* new Album(config)
New == Answer("new", constructor(args))

SpecConstruct == InitConstruct /\ [][New]_vars

\* init(dir) from disk (no configured images, an album directory under the
\* root, the metadata not skipped) with every listing of the directory and,
\* for every file, a record with a title or no record.
InitMetadata ==
  /\ Untouched
  /\ \E listing \in Listings, metadata \in [1..MaxFiles -> {"none", "full"}],
        skipSizes \in Bool :
       args = [op |-> "initFromDisk", listing |-> listing,
               metadata |-> metadata, owner |-> "owner",
               skipSizes |-> skipSizes]
  /\ result = <<>>

\* album.init(dir, skip), lines 244-290, with the directories in place and
\* exiftool answering: readdir, getMetadata, then (unless skipped) the size
\* generation nothing waits for, and the preview image read from the first
\* descriptor, which throws when there is none.
InitFromDisk ==
  Answer("initFromDisk",
         IF ~args.skipSizes /\ args.listing = <<>>
         THEN [op |-> "init", ret |-> "reject", images |-> <<>>,
               numberOfImages |-> 0]
         ELSE [op |-> "init", ret |-> "album",
               images |-> getMetadata(args.listing, args.metadata, args.owner),
               numberOfImages |-> Len(args.listing)])

SpecMetadata == InitMetadata /\ [][InitFromDisk]_vars

\* A step that is not one of the handlers above, as the call record shows
\* it.
Step(op, ret) ==
  [op |-> op, ret |-> ret, save |-> "none", saved |-> NoSaved, log |-> <<>>,
   retry |-> FALSE, fault |-> "none", error |-> FALSE, name |-> "none"]

\* The lists of distinct names readdir can return.
NameListings ==
  UNION {{l \in [1..n -> Names] : \A i, j \in 1..n : l[i] = l[j] => i = j} :
           n \in 0..Cardinality(Names)}

\* An album built for a directory that holds the image files of
\* args.listing and nothing else; init(dir, skip) has not been called.
InitDir ==
  /\ Untouched
  /\ \E listing \in NameListings, skipSizes \in Bool :
       args = [op |-> "initDir", listing |-> listing, skipSizes |-> skipSizes]
  /\ result = <<>>

\* album.init(dir, skip), lines 244-290, the directories in place and
\* exiftool answering; again: the album was initialised before.  The fs.Dir
\* handle is opened on the directory as it is (line 245): the image files
\* and the variants written so far.  The images list is kept when it holds
\* something and made of the listing when it is empty (lines 246-251).
\* Unless skip.sizes is set forEach starts a generateSizes call for every
\* descriptor and nothing waits for them: they are in flight when init()
\* goes on to the preview image (a TypeError without a first descriptor)
\* and to the JSON projection, and when it returns.  The projection is
\* created only when none is cached (lines 282-284).
InitOnDir(again) ==
  /\ args # <<>> /\ args.op = "initDir"
  /\ iter.open = again
  /\ LET imgs == IF album.images # <<>> THEN album.images
                 ELSE [i \in DOMAIN args.listing |->
                         Descriptor(args.listing[i], FALSE)]
         a1 == [album EXCEPT !.images = imgs, !.numberOfImages = Len(imgs)]
         rejects == ~args.skipSizes /\ imgs = <<>>
     IN /\ album' = IF rejects \/ a1.albumJson.set THEN a1
                    ELSE [a1 EXCEPT !.albumJson = createAlbumJson(a1)]
        /\ iter' = [open |-> TRUE,
                    left |-> {<<args.listing[i], "original">> :
                                i \in DOMAIN args.listing}
                             \cup {<<imgs[i].name, "variants">> :
                                     i \in {k \in DOMAIN imgs : imgs[k].sized}},
                    returned |-> <<>>, ended |-> FALSE]
        /\ inflight' = IF args.skipSizes THEN inflight
                       ELSE inflight \cup
                              {[kind |-> "generateSizes", name |-> imgs[i].name] :
                                 i \in DOMAIN imgs}
        /\ call' = Step("init", IF rejects THEN "throw" ELSE "album")
  /\ UNCHANGED <<stream, store, dir, nextOid, nextSid, savedOk, files,
                 pendingRm, args, result>>

\* The first init(dir, skip) of the album.
AlbumInitDir == InitOnDir(FALSE)

\* A generateSizes call init() started finishes, lines 1132-1294: it has
\* written the variants of its image into the album directory and set them
\* on the descriptor, or the image processor has failed (nothing handles
\* the rejection).  Whether a handle that was opened before a file was
\* written returns an entry for it is unspecified (readdir(3)): either may
\* happen while the handle has entries to read.
SizesSettle ==
  \E t \in inflight, ok \in Bool, seen \in Bool :
    /\ t.kind = "generateSizes"
    /\ seen => (ok /\ iter.open /\ ~iter.ended)
    /\ inflight' = inflight \ {t}
    /\ album' = IF ok THEN [album EXCEPT !.images = generateSizes(@, t.name)]
                ELSE album
    /\ iter' = IF seen THEN [iter EXCEPT !.left = @ \cup {<<t.name, "variants">>}]
               ELSE iter
    /\ call' = Step("sizesSettle", IF ok THEN "sizes" ELSE "throw")
    /\ UNCHANGED <<stream, store, dir, nextOid, nextSid, savedOk, files,
                   pendingRm, args, result>>

\* album.next(), lines 717-722: #directoryIterator.read(), or null without
\* a handle.  read() returns an entry the handle has not returned yet, and
\* null once there is none.
AlbumNext ==
  /\ ~iter.ended
  /\ IF ~iter.open
     THEN /\ call' = Step("next", "null")
          /\ iter' = iter
     ELSE IF iter.left = {}
     THEN /\ call' = Step("next", "null")
          /\ iter' = [iter EXCEPT !.ended = TRUE]
     ELSE \E e \in iter.left :
            /\ call' = Step("next", "entry")
            /\ iter' = [iter EXCEPT !.left = @ \ {e},
                                    !.returned = Append(@, e)]
  /\ UNCHANGED <<album, stream, store, dir, nextOid, nextSid, savedOk, files,
                 pendingRm, args, result, inflight>>

NextDir == AlbumInitDir \/ SizesSettle \/ AlbumNext

SpecDir == InitDir /\ [][NextDir]_vars

\* init() for a root directory that is given or not, that has the album
\* directory below it or not, and whose path holds a directory, a file or
\* nothing.
InitRoot ==
  /\ Untouched
  /\ \E hasRoot \in Bool, rootDir \in {<<"public">>, <<"a">>},
        imageUrl \in Bool, skipSizes \in Bool, skipMeta \in Bool,
        listing \in {<<>>, <<"a">>}, root \in {"dir", "file", "absent"},
        mkdirOk \in Bool, albumGone \in Bool :
       /\ ~hasRoot => rootDir = <<"public">>
       /\ args = [op |-> "initRoot",
                  cfg |-> InitArgs(hasRoot, rootDir, <<"public", "a">>,
                                   imageUrl, <<>>, FALSE, skipSizes, skipMeta,
                                   FALSE, FALSE, listing, FALSE, {}),
                  root |-> root, mkdirOk |-> mkdirOk, albumGone |-> albumGone]
  /\ result = <<>>

\* album.init(dirPath, skip)
AlbumInitRoot == Answer("initRoot", initRoot(args))

SpecRoot == InitRoot /\ [][AlbumInitRoot]_vars

\* An album that was built without an id and without the new flag, then
\* initialised from disk (which caches its JSON projection), changed and
\* saved.
NextSaved == AlbumInitDir \/ SizesSettle \/ SetPublic \/ Save

SpecSaved == InitDir /\ [][NextSaved]_vars

\* A later init(dir, skip) of the album.
AlbumInitAgain == InitOnDir(TRUE)

\* album.getJson() called right after an init() that resolved, lines
\* 1529-1534: the cached projection when there is one, a new one otherwise.
GetJson ==
  /\ call.op = "init" /\ call.ret = "album"
  /\ result' = [op |-> "getJson",
                json |-> IF album.albumJson.set THEN album.albumJson
                         ELSE createAlbumJson(album)]
  /\ call' = Step("getJson", "json")
  /\ UNCHANGED <<album, stream, store, dir, nextOid, nextSid, savedOk, files,
                 pendingRm, args, iter, inflight>>

\* An album that is initialised from disk, has its public flag set and its
\* sizes generated, and is initialised again.
NextReinit ==
  AlbumInitDir \/ AlbumInitAgain \/ SizesSettle \/ SetPublic \/ GetJson

SpecReinit == InitDir /\ [][NextReinit]_vars

\* ------------------------------------------------------- image patch
\* updateImage(image), lines 922-950: what it does to the descriptor it
\* found, d = [title, description, keywords, hide], for the patch
\* p = [title, description, keywords, hide], each key holding <<v>> when
\* the patch carries it with the value v and <<>> when it does not.  hide
\* is "true", "false" or "undefined"; an empty title is "".  The tags are
\* written, and title, description and keywords are merged, when the patch
\* carries one of them with a truthy value (a string that is not empty, any
\* list) and exiftool does not fail (writeOk); line 950 then assigns
\* image.hide to the descriptor whatever the patch carries.
Truthy(x) == x # <<>> /\ x[1] # ""
updateImageMerge(d, p, writeOk) ==
  LET tags == Truthy(p.title) \/ Truthy(p.description) \/ p.keywords # <<>>
      d1 == IF tags /\ writeOk
            THEN [d EXCEPT
                    !.title = IF Truthy(p.title) THEN p.title[1] ELSE @,
                    !.description = IF Truthy(p.description)
                                    THEN p.description[1] ELSE @,
                    !.keywords = IF p.keywords # <<>> THEN p.keywords[1] ELSE @,
                    !.hide = IF p.hide # <<>> THEN p.hide[1] ELSE @]
            ELSE d
  IN [op |-> "updateImage", error |-> (tags /\ ~writeOk),
      image |-> [d1 EXCEPT !.hide = Given(p.hide, "undefined")]]

\* updateImage(image) for a descriptor of the album and every patch that
\* names it.
InitPatch ==
  /\ Untouched
  /\ \E kw \in {<<>>, <<"k">>}, hide \in {"true", "false", "undefined"},
        title \in {<<>>, <<"">>, <<"t2">>}, description \in {<<>>, <<"d2">>},
        keywords \in {<<>>, <<<<"k2">>>>},
        phide \in {<<>>, <<"true">>, <<"false">>}, writeOk \in Bool :
       args = [op |-> "updateImage",
               image |-> [title |-> "t", description |-> "d",
                          keywords |-> kw, hide |-> hide],
               patch |-> [title |-> title, description |-> description,
                          keywords |-> keywords, hide |-> phide],
               writeOk |-> writeOk]
  /\ result = <<>>

\* album.updateImage(image)
MergePatch ==
  Answer("updateImage", updateImageMerge(args.image, args.patch, args.writeOk))

SpecPatch == InitPatch /\ [][MergePatch]_vars

\* ------------------------------------------------------------ albumUrl
\* A string is the sequence of its parts; #albumUrl is null or a string:
\* [isNull, str].  A key of the configuration holds <<s>> when given with
\* the string s and <<>> when not given.
Null == [isNull |-> TRUE, str |-> <<>>]
Str(s) == [isNull |-> FALSE, str |-> s]

\* String(v) as += applies it: null becomes the string "null".
StringOf(v) == IF v.isNull THEN <<"null">> ELSE v.str

\* new Album(config), line 142: config.albumUrl ?? config.url ?? null.
constructorAlbumUrl(albumUrl, url) ==
  IF albumUrl # <<>> THEN Str(albumUrl[1])
  ELSE IF url # <<>> THEN Str(url[1]) ELSE Null

\* path.parse(p).base: the last segment, the empty string for the root.
Base(p) == IF p = <<>> THEN <<>> ELSE <<p[Len(p)]>>

\* init(), lines 216-219: a falsy #albumUrl (null or the empty string) has
\* the base name of the album directory appended to it with +=.
initAlbumUrl(v, albumDir) ==
  IF v.isNull \/ v.str = <<>> THEN Str(StringOf(v) \o Base(albumDir)) ELSE v

\* init(dirPath, skip) of an album built with the keys albumUrl and url
\* given or not, for every album directory; no root directory is
\* configured, the directories exist, and the album has its imageUrl and
\* its images.
InitUrl ==
  /\ Untouched
  /\ \E albumUrl \in {<<>>, <<<<>>>>, <<<<"u">>>>},
        url \in {<<>>, <<<<>>>>, <<<<"v">>>>}, albumDir \in Paths :
       args = [op |-> "initUrl", albumUrl |-> albumUrl, url |-> url,
               albumDir |-> albumDir]
  /\ result = <<>>

\* new Album(config).init(dirPath, skip), then album.url
AlbumInitUrl ==
  Answer("initUrl",
         LET r == initBody(InitArgs(FALSE, <<>>, args.albumDir, TRUE,
                                    <<Descriptor("a", TRUE)>>, TRUE, TRUE, TRUE,
                                    FALSE, FALSE, <<>>, FALSE, {}))
         IN [op |-> "init", ret |-> r.ret,
             url |-> initAlbumUrl(constructorAlbumUrl(args.albumUrl, args.url),
                                  args.albumDir)])

SpecUrl == InitUrl /\ [][AlbumInitUrl]_vars

\* ----------------------------------------------------------- thumbnails
\* embedded maps a file to what exiftool extracted of its embedded
\* thumbnail and how writing it to the thumbnail file ends: "none" (the
\* record has no EXIF:ThumbnailImage), "ok" (written) or "writeFail"
\* (fs.writeFile fails).
\*
\* getMetadata(), lines 1079-1100 and 1108: the thumbnail of the descriptor
\* it makes for file f.  thumbUrl is assigned (line 1088) before the file
\* is written; a failed write is logged (lines 1094-1098) and the
\* descriptor is pushed with it.
getMetadataThumbnail(f, embedded) ==
  [name |-> f,
   thumbnail |-> IF embedded[f] = "none" THEN "undefined" ELSE "url"]

\* generateSizes(image, remakeThumb), lines 1264-1287: a thumbnail file is
\* made, and the descriptor's thumbnail set, when remakeThumb is given or
\* the descriptor has no thumbnail.
generateSizesThumbnail(d, remakeThumb) ==
  [made |-> remakeThumb \/ d.thumbnail = "undefined",
   d |-> IF remakeThumb \/ d.thumbnail = "undefined"
         THEN [d EXCEPT !.thumbnail = "url"] ELSE d]

\* init(dir, skip) from disk with the metadata extracted, and its size
\* generation run to the end without a failure of the image processor:
\* the descriptors getMetadata made, the descriptors in the end, and the
\* files that have a thumbnail file then.
initThumbnails(a) ==
  LET meta == [i \in DOMAIN a.listing |->
                 getMetadataThumbnail(a.listing[i], a.embedded)]
      gen == [i \in DOMAIN meta |-> generateSizesThumbnail(meta[i], FALSE)]
      written == {f \in Names : a.embedded[f] = "ok"}
  IN IF ~a.skipSizes /\ a.listing = <<>>
     THEN [op |-> "init", ret |-> "reject", meta |-> <<>>, images |-> <<>>,
           thumbFiles |-> {}]
     ELSE [op |-> "init", ret |-> "album", meta |-> meta,
           images |-> IF a.skipSizes THEN meta
                      ELSE [i \in DOMAIN gen |-> gen[i].d],
           thumbFiles |->
             {meta[i].name : i \in {k \in DOMAIN meta : meta[k].name \in written}}
             \cup IF a.skipSizes THEN {}
                  ELSE {meta[i].name : i \in {k \in DOMAIN gen : gen[k].made}}]

\* init(dir, skip) for every listing of the directory and, for every file,
\* every outcome of its embedded thumbnail.
InitThumbs ==
  /\ Untouched
  /\ \E listing \in NameListings,
        embedded \in [Names -> {"none", "ok", "writeFail"}], skipSizes \in Bool :
       args = [op |-> "initThumbs", listing |-> listing,
               embedded |-> embedded, skipSizes |-> skipSizes]
  /\ result = <<>>

\* album.init(dir, skip)
AlbumInitThumbs == Answer("initThumbs", initThumbnails(args))

SpecThumbs == InitThumbs /\ [][AlbumInitThumbs]_vars

\* ------------------------------------------------- init from disk, again
\* A file name is the sequence of its parts: <<i>> is the image file
\* number i, and f \o <<"big">> the file `${name}_${geometry}.jpg` that
\* generateSizes writes for the file f (likewise "med", "sml" and
\* "thumbnail").
\*
\* generateSizes(image), lines 1211-1216, 1229-1234, 1247-1252 and
\* 1275-1280: the files it writes into the album directory for the file f.
\* (The thumbnail file is written by getMetadata, lines 1092-1094, when the
\* image has an embedded one.)
generateSizesFiles(f) ==
  <<f \o <<"big">>, f \o <<"med">>, f \o <<"sml">>, f \o <<"thumbnail">>>>

\* The files generateSizes writes for the files of the list l, in order.
RECURSIVE GeneratedFor(_)
GeneratedFor(l) ==
  IF l = <<>> THEN <<>> ELSE generateSizesFiles(l[1]) \o GeneratedFor(Tail(l))

\* init(dir), lines 244-270, of a new album without images: the names of
\* its descriptors are the names readdir lists (lines 249-250), and a
\* generateSizes call is started for each of them (lines 268-270).  Without
\* a file init() rejects at the preview image.
initNames(listing) ==
  [ret |-> IF listing = <<>> THEN "reject" ELSE "album",
   names |-> listing, sized |-> listing]

\* The directory once the size generation init() started has finished: the
\* files it held and the files written for them (readdir lists them in no
\* particular order; here the new files come last).
DirAfterSizes(listing) ==
  LET new == GeneratedFor(listing)
      have == {listing[i] : i \in DOMAIN listing}
  IN listing \o SelectSeq(new, LAMBDA f : f \notin have)

\* Two new albums, one after the other, are initialised over a directory
\* that holds the image files of args.listing; the size generation of the
\* first has finished, without a failure, before the second is built.
InitTwice ==
  /\ Untouched
  /\ \E listing \in Listings :
       args = [op |-> "initTwice",
               listing |-> [i \in DOMAIN listing |-> <<listing[i]>>]]
  /\ result = <<>>

\* new Album(config).init(dir), and the same again
AlbumInitTwice ==
  Answer("initTwice",
         [op |-> "initTwice", first |-> initNames(args.listing),
          second |-> initNames(DirAfterSizes(args.listing))])

SpecTwice == InitTwice /\ [][AlbumInitTwice]_vars

\* ------------------------------------------------- concurrent save()
\* save() as the event loop runs it: the code between two awaits runs
\* without interruption, and at an await the call waits for a microtask
\* (the promise of an async method of the album: pc "json", "streamed"),
\* for a reply of redis ("xDel", "xDelRemove", "xAdd") or for a reply of
\* the store ("write").  A command takes effect when it is issued and its
\* reply comes later; every reply is a success here.  A call in flight is
\*   [kind, id, pc, theId, json, sid, seq]
\* with the id of the caller, the local theId, the projection
\* createAlbumJson returned, the id xAdd replies with, and the position of
\* the call in the queue it waits in.
Callers == 1..MaxCalls
Saves == {t \in inflight : t.kind = "save"}
Queue(pc) ==
  IF pc \in {"json", "streamed"} THEN "microtask"
  ELSE IF pc = "write" THEN "store"
  ELSE IF pc = "returned" THEN "none" ELSE "redis"

\* Where a call that arrives at the await pc is put in its queue: behind
\* the calls of ts that wait there.
Behind(ts, pc) ==
  LET before == {t.seq : t \in {u \in ts : Queue(u.pc) = Queue(pc)}}
  IN IF before = {} THEN 1 ELSE 1 + CHOOSE m \in before : \A k \in before : k <= m

\* The call t is the next one its queue serves.  Microtasks run before the
\* event loop handles a reply.
Served(t) ==
  /\ \A u \in Saves : Queue(u.pc) = Queue(t.pc) => t.seq <= u.seq
  /\ Queue(t.pc) # "microtask" => \A u \in Saves : Queue(u.pc) # "microtask"

\* The call t goes on from the state it meets to its next await, pc.
Await(t, pc, others) == [t EXCEPT !.pc = pc, !.seq = Behind(others, pc)]

\* save(), lines 533-541, up to the first await inside addToRedisStream
\* (lines 329-359) or removeFromRedisStream (lines 300-319): the stream id
\* is read here, and xDel or xAdd is issued.
StreamStart(t, others) ==
  IF album.public
  THEN IF ~album.hasRedis \/ album.albumId = NoId
       THEN /\ inflight' = others \cup {Await(t, "streamed", others)}
            /\ UNCHANGED <<stream, nextSid>>
       ELSE IF album.streamId # NoSid
       THEN /\ stream' = {e \in stream : e.sid # album.streamId}
            /\ inflight' = others \cup {Await(t, "xDel", others)}
            /\ UNCHANGED nextSid
       ELSE /\ stream' = stream \cup {[sid |-> nextSid, album |-> album.albumId]}
            /\ nextSid' = nextSid + 1
            /\ inflight' = others \cup {Await([t EXCEPT !.sid = nextSid], "xAdd", others)}
  ELSE IF album.streamId # NoSid /\ album.hasRedis
       THEN /\ stream' = {e \in stream : e.sid # album.streamId}
            /\ inflight' = others \cup {Await(t, "xDelRemove", others)}
            /\ UNCHANGED nextSid
       ELSE /\ inflight' = others \cup {Await(t, "streamed", others)}
            /\ UNCHANGED <<stream, nextSid>>

\* The caller n has not called save() yet, and nothing else is asked for.
CanBeginSerialized(n) ==
  /\ \A t \in Saves : t.id # n
  /\ \A t \in Saves : t.pc = "returned"

\* The caller n has not called save() yet: save() takes no lock and keeps
\* no queue of its calls (lines 512-532).
CanBegin(n) == \A t \in Saves : t.id # n

\* save(), lines 512-532: theId, and createAlbumJson() when no projection is
\* cached; the call goes on to the stream at once when one is.
BeginSave(n) ==
  /\ CanBegin(n)
  /\ album.hasDb
  /\ LET w == AssignTheId(World(album, stream, store, dir, nextOid, nextSid))
         t == [kind |-> "save", id |-> n, pc |-> "begin", theId |-> w.theId,
               json |-> NoJson, sid |-> NoSid, seq |-> 0]
     IN /\ nextOid' = w.oid
        /\ IF w.a.albumJson.set
           THEN /\ album' = w.a
                /\ StreamStart(t, inflight)
           ELSE /\ album' = w.a
                /\ inflight' = inflight \cup
                     {Await([t EXCEPT !.json = createAlbumJson(w.a)], "json", inflight)}
                /\ UNCHANGED <<stream, nextSid>>
  /\ call' = Step("saveBegins", "none")
  /\ UNCHANGED <<store, dir, savedOk, files, pendingRm, args, result, iter>>

\* save(), line 531: the projection is assigned, then the stream.
AfterJson(t) ==
  /\ t.pc = "json" /\ Served(t)
  /\ album' = [album EXCEPT !.albumJson = t.json]
  /\ StreamStart(t, inflight \ {t})
  /\ call' = Step("saveGoesOn", "json")
  /\ UNCHANGED <<store, dir, nextOid, savedOk, files, pendingRm, args, result,
                 iter>>

\* addToRedisStream, lines 360-378: after the reply of xDel, xAdd is issued.
AfterXDel(t) ==
  /\ t.pc = "xDel" /\ Served(t)
  /\ stream' = stream \cup {[sid |-> nextSid, album |-> album.albumId]}
  /\ nextSid' = nextSid + 1
  /\ inflight' = (inflight \ {t})
                   \cup {Await([t EXCEPT !.sid = nextSid], "xAdd", inflight \ {t})}
  /\ call' = Step("saveGoesOn", "xDel")
  /\ UNCHANGED <<album, store, dir, nextOid, savedOk, files, pendingRm, args,
                 result, iter>>

\* addToRedisStream, lines 379-384: the reply of xAdd becomes the stream id.
AfterXAdd(t) ==
  /\ t.pc = "xAdd" /\ Served(t)
  /\ album' = [album EXCEPT !.streamId = t.sid]
  /\ inflight' = (inflight \ {t}) \cup {Await(t, "streamed", inflight \ {t})}
  /\ call' = Step("saveGoesOn", "xAdd")
  /\ UNCHANGED <<stream, store, dir, nextOid, nextSid, savedOk, files,
                 pendingRm, args, result, iter>>

\* removeFromRedisStream, lines 312-318: after the reply of xDel the stream
\* id is cleared.
AfterXDelRemove(t) ==
  /\ t.pc = "xDelRemove" /\ Served(t)
  /\ album' = [album EXCEPT !.streamId = NoSid]
  /\ inflight' = (inflight \ {t}) \cup {Await(t, "streamed", inflight \ {t})}
  /\ call' = Step("saveGoesOn", "xDelRemove")
  /\ UNCHANGED <<stream, store, dir, nextOid, nextSid, savedOk, files,
                 pendingRm, args, result, iter>>

\* save(), lines 546-581: the document is built from the fields as they are
\* now and the write is issued.
IssueWrite(t) ==
  /\ t.pc = "streamed" /\ Served(t)
  /\ LET w == WriteDoc([World(album, stream, store, dir, nextOid, nextSid)
                          EXCEPT !.theId = t.theId], "ok")
     IN /\ album' = w.a
        /\ store' = w.store
        /\ nextOid' = w.oid
  /\ inflight' = (inflight \ {t}) \cup {Await(t, "write", inflight \ {t})}
  /\ call' = Step("saveGoesOn", "streamed")
  /\ UNCHANGED <<stream, dir, nextSid, savedOk, files, pendingRm, args, result,
                 iter>>

\* save(), lines 582-596: the reply of the store is returned.
AfterWrite(t) ==
  /\ t.pc = "write" /\ Served(t)
  /\ inflight' = (inflight \ {t}) \cup {Await(t, "returned", inflight \ {t})}
  /\ call' = Step("saveReturns", "saved")
  /\ savedOk' = TRUE
  /\ UNCHANGED <<album, stream, store, dir, nextOid, nextSid, files, pendingRm,
                 args, result, iter>>

\* An album with an id, a collection and a redis client, public or not,
\* in the stream or not, stored or not; its callers call save() once each,
\* at any time.
InitRace ==
  /\ Construct({TRUE}, {TRUE}, {NoSid, 1}, {<<>>})
  /\ ~album.newAlbum /\ album.albumId # NoId
  /\ files = {}
  /\ pendingRm = {}
  /\ NoCall

NextRace ==
  \/ \E n \in Callers : BeginSave(n)
  \/ \E t \in Saves : AfterJson(t)
  \/ \E t \in Saves : AfterXDel(t)
  \/ \E t \in Saves : AfterXAdd(t)
  \/ \E t \in Saves : AfterXDelRemove(t)
  \/ \E t \in Saves : IssueWrite(t)
  \/ \E t \in Saves : AfterWrite(t)

SpecRace == InitRace /\ [][NextRace]_vars

\* ------------------------------------------------------------ properties
\* A claim about save() is stated of every call that ran save(): save()
\* itself, and addImage, updateImage and deleteImage, which end with it.
IsStreamCall(e) == e.call \in {"xDel", "xAdd"}
IsDocWrite(e) == e.call \in {"insertOne", "updateOne"}
LogHas(c, ok) == \E i \in DOMAIN call.log : call.log[i].call = c /\ call.log[i].ok = ok
LogCalls == {call.log[i].call : i \in DOMAIN call.log}
AllZero(saved) == saved.matched = 0 /\ saved.modified = 0 /\ saved.upserted = 0

\* C1: when the document write of save() returns without throwing, save()
\* returns false if the reply reports matchedCount, modifiedCount and
\* upsertedCount all zero, and returns a result, with albumId assigned, if
\* the reply reports upsertedCount >= 1 or an insertOne succeeded.
SaveResultFollowsCounts ==
  call.save \in {"false", "saved"} =>
    /\ AllZero(call.saved) => call.save = "false"
    /\ (call.saved.upserted >= 1 \/ LogHas("insertOne", TRUE)) =>
         (call.save = "saved" /\ album.albumId # NoId)

SaveReturnedFalseOnZeroCounts ==
  call.op = "save" /\ call.save = "false" /\ AllZero(call.saved)
    /\ LogHas("updateOne", TRUE)

\* C2: in every save() call the stream operations of the call (xDel of the
\* prior entry, xAdd of the new one) are issued and completed before the
\* document write (insertOne or updateOne) is issued.
StreamBeforeDocument ==
  call.save # "none" =>
    \A i, j \in DOMAIN call.log :
      (IsStreamCall(call.log[i]) /\ IsDocWrite(call.log[j])) => i < j

SaveDidStreamAndDocument ==
  call.op = "save" /\ LogHas("xDel", TRUE) /\ LogHas("xAdd", TRUE)
    /\ LogHas("updateOne", TRUE)

\* C3: if a stream delete or add fails during save(), the document write is
\* still attempted in that call and the stream failure is attached to the
\* result save() returns.
StreamFailureAttachedToResult ==
  (call.save # "none" /\ (LogHas("xDel", FALSE) \/ LogHas("xAdd", FALSE))) =>
    /\ \E i \in DOMAIN call.log : IsDocWrite(call.log[i])
    /\ call.save = "saved" => call.saved.redis

\* (save() does not change the public flag: album.public after the call is
\* the flag the call ran with.)
\* C4: a save() of a public album whose stream add succeeds leaves exactly
\* one entry for the album in the stream, and that entry's id is the
\* album's streamId (first save and re-save alike).
PublicSaveLeavesOneEntry ==
  (call.save # "none" /\ album.public /\ LogHas("xAdd", TRUE)) =>
    /\ Cardinality(EntriesOf(stream, album.albumId)) = 1
    /\ \E e \in EntriesOf(stream, album.albumId) : e.sid = album.streamId

\* C5: a save() of a private album never adds a stream entry, and when the
\* stream delete succeeds no entry of the album is left in the stream and
\* streamId is null.
PrivateSaveLeavesNoEntry ==
  (call.save # "none" /\ ~album.public) =>
    /\ "xAdd" \notin LogCalls
    /\ LogHas("xDel", TRUE) =>
         (EntriesOf(stream, album.albumId) = {} /\ album.streamId = NoSid)

\* C6: between operations streamId is null or the id of an entry that is
\* in the stream; it is null whenever the album has no entry there.
StreamIdNamesLiveEntry ==
  album.streamId = NoSid \/ \E e \in stream : e.sid = album.streamId

\* C7: an album constructed without an id has no albumId in any state
\* before one of its save() calls has succeeded.
AlbumIdAbsentBeforeSuccessfulSave ==
  (album.cfgId = NoId /\ ~savedOk) => album.albumId = NoId

DeleteAttemptsAllSteps ==
  call.op = "deleteAlbum" =>
    {"removeFromRedisStream", "fs.rm", "deleteOne"} \subseteq LogCalls

\* C10: deleteAlbum() returns true only if all three steps succeeded.
DeleteTrueOnlyIfAllSucceeded ==
  (call.op = "deleteAlbum" /\ call.ret = "true") =>
    /\ {"removeFromRedisStream", "fs.rm", "deleteOne"} \subseteq LogCalls
    /\ \A i \in DOMAIN call.log : call.log[i].ok

AddImageAppendsOne ==
  [][(call'.op = "addImage" /\ call'.ret = "result") =>
       /\ Len(album'.images) = Len(album.images) + 1
       /\ album'.images[Len(album'.images)].name = call'.name
       /\ SubSeq(album'.images, 1, Len(album.images)) = album.images]_vars

\* A file of image f matches the pattern <name>*: the name of f begins
\* with the base name of the deleted image.
GlobTest(name, f) == StartsAt(Stem(f), 1, Stem(name))

\* C13: when deleteImage(name) returns for a name present in images, the
\* list has lost exactly the matching descriptor and no file of the
\* directory that matches <name>* is on disk at that moment.
DeleteImageLeavesNoFile ==
  [][(/\ call'.op = "deleteImage"
      /\ call'.ret \in {"true", "false"}
      /\ IndexOf(album.images, call'.name) # 0) =>
       /\ Len(album'.images) = Len(album.images) - 1
       /\ album'.images = Splice(album.images, IndexOf(album.images, call'.name))
       /\ \A f \in files' : ~GlobTest(call'.name, f)]_vars

\* C14: deleteImage(name) fails with an error whenever the removal of a
\* matching file fails and whenever its save() throws or returns false: it
\* never reports success after a failed file removal.
DeleteImageFailsOnFailure ==
  (call.op = "deleteImage"
     /\ (call.fault = "rmFail" \/ call.save \in {"throw", "false"})) =>
    call.ret = "throw"

\* albumDir is below rootDir.
Descendant(rootDir, albumDir) ==
  Len(rootDir) < Len(albumDir) /\ SubSeq(albumDir, 1, Len(rootDir)) = rootDir

\* C15: for every pair (rootDir, albumDir) the resolution of the album
\* directory succeeds if and only if albumDir is a descendant of rootDir;
\* for a sibling or an ancestor path it fails and init() rejects.
ResolveIffDescendant ==
  (result # <<>> /\ args.hasRoot) =>
    /\ (result.error # "resolve") <=> Descendant(args.rootDir, args.albumDir)
    /\ ~Descendant(args.rootDir, args.albumDir) => result.ret = "reject"

\* C16: if the image processor fails on a size variant of an image during
\* an init() that does not skip the sizes, init() rejects with an error
\* that carries the processor's error as its cause: it never resolves to
\* an Album in that case.
InitRejectsOnProcessorFailure ==
  (result # <<>> /\ ~args.skipSizes /\ result.magick # {}) =>
    /\ result.ret = "reject"
    /\ result.cause = "magick"

\* Two values of a field agree: they are equal, or each is null or absent.
Same(x, y) == x = y \/ {x, y} \subseteq {"null", "absent"}
SameId(x, y) == x = y \/ {x, y} \subseteq {NoId, AbsentSid}
Elems(ks) == {ks[i] : i \in DOMAIN ks}

\* C17: loading an album from a stored document with the sizes and the
\* metadata skipped and calling getJson() gives the document back field
\* for field (_id, dir, slug, imageUrl, creator, name, url, previewImage,
\* description, keywords, public, images, streamId, the post reference), up
\* to the order of the keywords.
RoundTripReproducesDocument ==
  (result # <<>> /\ result.ret = "album") =>
    LET d == args.doc
        j == result.json
    IN /\ j._id = d._id /\ j.dir = d.dir /\ j.public = d.public
       /\ j.images = d.images
       /\ Elems(j.keywords) = Elems(d.keywords)
       /\ Same(j.slug, d.slug) /\ Same(j.imageUrl, d.imageUrl)
       /\ Same(j.creator, d.creator) /\ Same(j.name, d.name)
       /\ Same(j.url, d.url) /\ Same(j.previewImage, d.previewImage)
       /\ Same(j.description, d.description)
       /\ SameId(j.streamId, d.streamId)
       /\ SameId(IdOrElse(j.postId, j.post_id), IdOrElse(d.postId, d.post_id))

IsLookup == result # <<>> /\ result.op \in {"getById", "getByName", "getBySlug"}
LookupField ==
  CASE args.op = "getById" -> "_id"
    [] args.op = "getByName" -> "name"
    [] OTHER -> "slug"
LookupHits == {d \in args.store : d[LookupField] = args.key}

\* C18: getById, getByName and getBySlug return false, without throwing,
\* when no stored document matches the key and when the lookup fails;
\* otherwise they return an Album rehydrated from the found document and
\* initialised with skip = {sizes: true, metadata: true}.
LookupReturnsAlbumOrFalse ==
  (IsLookup /\ args.hasMongo /\ args.key # 0) =>
    IF LookupHits = {} \/ args.lookupFail
    THEN result.ret = "false"
    ELSE /\ result.ret = "album"
         /\ \E d \in LookupHits : result.id = d._id /\ result.images = d.images
         /\ result.skip = [sizes |-> TRUE, metadata |-> TRUE]

\* The stores that differ from st only in the images of albums whose
\* creator is not owner.
OtherOwnersVariants(st, owner) ==
  {{[d EXCEPT !.images = IF d.creator = owner THEN @ ELSE g[d._id]] : d \in st} :
     g \in [1..MaxDocs -> {<<>>, <<Descriptor("a", TRUE)>>,
                            <<Descriptor("b", TRUE)>>}]}

\* C19: getImageList(store, albumId, ownerName), for owner names that are
\* strings, returns the images of album albumId only if the creator of
\* that album is ownerName; for every other ownerName the result holds no
\* image and is the same for every store that differs only in the albums
\* of other owners.
ImageListOnlyForOwner ==
  (result # <<>> /\ result.op = "getImageList") =>
    /\ result.images # <<>> =>
         \E d \in args.store :
           d._id = args.key /\ d.creator = args.owner /\ d.images = result.images
    /\ (\A d \in args.store : d._id = args.key => d.creator # args.owner) =>
         result.images = <<>>
    /\ \A st2 \in OtherOwnersVariants(args.store, args.owner) :
         getImageList([args EXCEPT !.store = st2]) = result

ImageListRefusedToOtherOwner ==
  /\ result # <<>> /\ result.op = "getImageList" /\ result.ret = "list"
  /\ result.images = <<>>
  /\ \E d \in args.store :
       d._id = args.key /\ d.creator # args.owner /\ d.images # <<>>

ImagesOf(bs) == UNION {b.albums : b \in bs}
Sum(bs) ==
  LET Count(id) == IF \E b \in bs : b._id = id
                   THEN (CHOOSE b \in bs : b._id = id).count ELSE 0
  IN Count("false") + Count("public")

ConstructorNeverThrows ==
  (args # <<>> /\ args.op = "new" /\ result # <<>>) => result.ret = "album"

\* C22: in every reachable state no two descriptors of images have the same
\* name, also after the same file was added twice.
NamesUnique ==
  \A i, j \in DOMAIN album.images :
    album.images[i].name = album.images[j].name => i = j

\* C23: numberOfImages equals images.length in every state between
\* operations: after the constructor, and after every addImage and
\* deleteImage.
NumberOfImagesInSync == album.numberOfImages = Len(album.images)

\* The number of descriptors of imgs that carry a title.
Titled(imgs) == Cardinality({i \in DOMAIN imgs : imgs[i].title # "undefined"})

\* C24: an init() from disk that extracts the metadata yields exactly one
\* descriptor per file listed in the album directory, in listing order; a
\* file without an extracted record gets a descriptor with the default
\* fields (no title, no keywords, creator = album owner), so the number of
\* descriptors with a title is the number of listed files with a titled
\* record.
InitYieldsOneDescriptorPerFile ==
  (args # <<>> /\ args.op = "initFromDisk" /\ result # <<>> /\ result.ret = "album") =>
    /\ Len(result.images) = Len(args.listing)
    /\ \A i \in DOMAIN args.listing :
         /\ result.images[i].name = args.listing[i]
         /\ args.metadata[args.listing[i]] = "none" =>
              /\ result.images[i].title = "undefined"
              /\ result.images[i].keywords = <<>>
              /\ result.images[i].creator = args.owner
    /\ Titled(result.images)
         = Cardinality({i \in DOMAIN args.listing :
                          args.metadata[args.listing[i]] = "full"})

\* C24 witness: five files, titles extracted for three of them: five
\* descriptors, three with a title and two without.
InitOfFiveFilesThreeTitled ==
  /\ args # <<>> /\ args.op = "initFromDisk" /\ result # <<>>
  /\ result.ret = "album"
  /\ Len(args.listing) = 5
  /\ Len(result.images) = 5
  /\ Titled(result.images) = 3

\* C25: once the next() calls after init(dir) have returned null, they have
\* returned each entry once, and as many entries as image files were placed
\* in the directory: the files the size generation writes are not among
\* them.
NextReturnsTheOriginalFiles ==
  (call.op = "next" /\ iter.open /\ iter.ended) =>
    /\ \A i, j \in DOMAIN iter.returned :
         iter.returned[i] = iter.returned[j] => i = j
    /\ Len(iter.returned) = Len(args.listing)

\* init() got as far as the check of the root directory.
RootChecked ==
  args.cfg.imageUrl \/ HasPublic(Parent(args.cfg.albumDir))

\* C26: after a successful init() the root directory is the configured one
\* and is a directory on disk; init() creates it when it is absent, and
\* rejects when it cannot be created.
InitLeavesRootDirInPlace ==
  (args # <<>> /\ args.op = "initRoot" /\ result # <<>>) =>
    /\ result.ret = "album" =>
         /\ result.root = "dir"
         /\ args.cfg.hasRoot => result.rootDir = args.cfg.rootDir
    /\ (RootChecked /\ args.root = "absent" /\ args.mkdirOk) =>
         result.root = "dir"
    /\ (RootChecked /\ args.root # "dir" /\ result.root # "dir") =>
         (result.ret = "reject" /\ result.error = "iterator")

\* C26 witness: an init() with a configured root directory has resolved.
InitResolvedUnderConfiguredRoot ==
  /\ args # <<>> /\ args.op = "initRoot" /\ result # <<>>
  /\ args.cfg.hasRoot
  /\ result.ret = "album"
  /\ result.root = "dir"
  /\ result.rootDir = args.cfg.rootDir

\* C27: after every successful save() the stored document of the album
\* holds the album's values of the mutable fields (of those the state
\* carries: public, images and streamId, a missing streamId key counting as
\* null), after an insert as after an update, and also when a field was
\* changed after init().
SavedDocumentHoldsTheFields ==
  (call.op = "save" /\ call.save = "saved") =>
    \E d \in store :
      /\ d._id = album.albumId
      /\ d.public = album.public
      /\ d.images = album.images
      /\ SameId(d.streamId, album.streamId)

\* C28: a save() of an album that had no id before the call, built with
\* new = true or not, writes the document with insertOne under the
\* generated id; every other save() writes it with updateOne filtered on the
\* album's id.
FirstSaveInsertsOthersUpdate ==
  [][call'.op = "save" =>
       \A i \in DOMAIN call'.log :
         IsDocWrite(call'.log[i]) =>
           /\ call'.log[i].call =
                IF album.albumId = NoId THEN "insertOne" ELSE "updateOne"
           /\ call'.log[i].id = album'.albumId]_vars

\* C28 as the code has it: a save() of an album that has no id and was not
\* built with new = true writes the document with insertOne under a
\* generated id; every other save(), the first save() of an album built
\* with new = true among them (it generates the id first, lines 522-525),
\* writes it with updateOne and upsert.  The id of the write is the id the
\* album has after the call.
FirstSaveOfNewAlbumUpserts ==
  [][call'.op = "save" =>
       \A i \in DOMAIN call'.log :
         IsDocWrite(call'.log[i]) =>
           /\ call'.log[i].call =
                IF album.albumId = NoId /\ ~album.newAlbum
                THEN "insertOne" ELSE "updateOne"
           /\ call'.log[i].id = album'.albumId]_vars

\* C28 witness: the first save() of an album built with new = true and
\* without an id has upserted its document with updateOne.
NewAlbumWasUpserted ==
  /\ call.op = "save" /\ call.save = "saved"
  /\ album.cfgId = NoId
  /\ LogHas("updateOne", TRUE)
  /\ call.saved.upserted = 1
  /\ \E d \in store : d._id = album.albumId

\* The generateSizes calls in flight.
SizesInFlight == {t \in inflight : t.kind = "generateSizes"}

\* C29: during an init() that does not skip the sizes, the size generation
\* is a sequential pass (no two generateSizes calls are in flight at once),
\* and when init() resolves every generateSizes call has finished and every
\* descriptor has its variants.
InitGeneratesSizesInSequence ==
  /\ Cardinality(SizesInFlight) <= 1
  /\ (call.op = "init" /\ call.ret = "album" /\ ~args.skipSizes) =>
       /\ SizesInFlight = {}
       /\ \A i \in DOMAIN album.images : album.images[i].sized

\* The calls of save() that have not returned, and the stream ids of the
\* album's entries in the stream.
Unfinished == {t \in Saves : t.pc # "returned"}
LiveSids == {e.sid : e \in EntriesOf(stream, album.albumId)}

\* C30: save() is not serialized.  A caller that has not called save() can
\* call it whatever the other calls are doing; and when two calls wait for
\* the reply of their xAdd at once (each read the stream id before the
\* other's reply was assigned), the stream holds an entry of the album for
\* each of them: two entries, of which the stream id and the document can
\* name one.
SaveIsNotSerialized ==
  /\ \A n \in Callers : (\A t \in Saves : t.id # n) => ENABLED BeginSave(n)
  /\ \A t, u \in Saves :
       (t.id # u.id /\ t.pc = "xAdd" /\ u.pc = "xAdd") =>
         /\ {t.sid, u.sid} \subseteq LiveSids
         /\ t.sid # u.sid

\* C30 witness: two save() calls of one album have interleaved and both
\* have returned; the stream holds two entries of the album, and the stored
\* document names only one of them.
RaceLeftTwoEntries ==
  /\ Saves # {} /\ Unfinished = {}
  /\ Cardinality(Saves) = 2
  /\ Cardinality(LiveSids) > 1
  /\ \E d \in store : d._id = album.albumId /\ LiveSids \ {d.streamId} # {}

\* The stream step of the save() that made the call log was carried out:
\* the log holds stream calls and each of them succeeded.
StreamSynced(log) ==
  /\ \E i \in DOMAIN log : IsStreamCall(log[i])
  /\ \A i \in DOMAIN log : IsStreamCall(log[i]) => log[i].ok

\* C31: when a save() has synchronised the stream and its document write
\* has thrown, and the save() that follows succeeds, then after it the
\* stream holds exactly one entry of the album if the album is public and
\* none if it is private, and the stored document's streamId names that
\* entry (is null for a private album).
NextSaveRepairsTheStream ==
  [][(/\ call.op = "save" /\ call.save = "throw" /\ StreamSynced(call.log)
      /\ call'.op = "save" /\ call'.save = "saved") =>
       LET es == EntriesOf(stream', album'.albumId)
       IN /\ Cardinality(es) = IF album'.public THEN 1 ELSE 0
          /\ \E d \in store' :
               /\ d._id = album'.albumId
               /\ IF album'.public
                  THEN \E e \in es : e.sid = d.streamId
                  ELSE SameId(d.streamId, NoSid)]_vars

\* C32: an init() with the sizes and the metadata skipped (the init() of a
\* rehydrated album) that resolves leaves the images the album was built
\* with: they equal the stored images, also when the stored list is empty,
\* whatever files the directory holds.
RehydratedImagesNotRederived ==
  (args # <<>> /\ args.op = "init" /\ result # <<>> /\ result.ret = "album"
     /\ args.skipSizes /\ args.skipMeta) =>
    result.images = args.images

\* C33: getJson() called right after a successful init() returns a document
\* whose fields (of those the state carries: _id and public) are the
\* album's fields at that moment, also when the album was initialised
\* before and changed since.
InitRebuildsTheProjection ==
  (call.op = "getJson" /\ result # <<>> /\ result.op = "getJson") =>
    /\ result.json._id = album.albumId
    /\ result.json.public = album.public

\* The descriptors of imgs whose name is not name, in their order.
Others(imgs, name) == SelectSeq(imgs, LAMBDA d : d.name # name)

\* C34: deleteImage(name) removes, and starts removing, only files of that
\* image (files whose names begin with the image's base name), and leaves
\* the descriptors of every other image as they were.
DeleteImageTouchesOnlyItsImage ==
  [][(call'.op = "deleteImage" /\ call'.name # "none") =>
       /\ \A f \in (files \ files') \cup (pendingRm' \ pendingRm) :
            GlobTest(call'.name, f)
       /\ Others(album'.images, call'.name) = Others(album.images, call'.name)]_vars

\* C35: updateImage leaves every field of the descriptor that the patch
\* does not carry (title, description, keywords, hide) as it was; a patch
\* without a hide key leaves the hide flag unchanged.
PatchKeepsTheFieldsItLacks ==
  (args # <<>> /\ args.op = "updateImage" /\ result # <<>>) =>
    /\ args.patch.title = <<>> => result.image.title = args.image.title
    /\ args.patch.description = <<>> =>
         result.image.description = args.image.description
    /\ args.patch.keywords = <<>> => result.image.keywords = args.image.keywords
    /\ args.patch.hide = <<>> => result.image.hide = args.image.hide

\* C36: after an init() that resolved, albumUrl is exactly the last segment
\* of the album directory when no albumUrl was supplied (neither key of the
\* configuration given), and the supplied string when one was supplied.
InitSetsAlbumUrlToLastSegment ==
  (args # <<>> /\ args.op = "initUrl" /\ result # <<>> /\ result.ret = "album") =>
    /\ (args.albumUrl = <<>> /\ args.url = <<>>) =>
         result.url = Str(Base(args.albumDir))
    /\ (args.albumUrl # <<>> /\ args.albumUrl[1] # <<>>) =>
         result.url = Str(args.albumUrl[1])

\* C37: when writing the embedded thumbnail of an image fails during
\* init(), init() still resolves with a descriptor for every listed file,
\* the descriptor getMetadata makes for the failing image has no thumbnail,
\* and the size generation (when it is not skipped) makes a thumbnail file
\* for it.
ThumbnailFailureLeavesNoThumbnail ==
  (args # <<>> /\ args.op = "initThumbs" /\ result # <<>>
     /\ (args.skipSizes \/ args.listing # <<>>)) =>
    /\ result.ret = "album"
    /\ Len(result.meta) = Len(args.listing)
    /\ \A i \in DOMAIN result.meta :
         /\ result.meta[i].name = args.listing[i]
         /\ args.embedded[args.listing[i]] = "writeFail" =>
              /\ result.meta[i].thumbnail = "undefined"
              /\ ~args.skipSizes => args.listing[i] \in result.thumbFiles

\* C38: a document save() wrote, rehydrated and saved again with nothing
\* changed, has every field other than streamId as before (a null and a
\* missing key counting as the same), and the post reference the first
\* save() wrote is still in it.
ResaveKeepsTheDocument ==
  (args # <<>> /\ args.op = "getById" /\ result # <<>> /\ result.op = "resave"
     /\ result.ret = "album") =>
    LET d == args.doc
        e == result.doc
    IN /\ e._id = d._id /\ e.dir = d.dir /\ e.public = d.public
       /\ e.images = d.images /\ e.keywords = d.keywords
       /\ Same(e.slug, d.slug) /\ Same(e.imageUrl, d.imageUrl)
       /\ Same(e.creator, d.creator) /\ Same(e.name, d.name)
       /\ Same(e.url, d.url) /\ Same(e.previewImage, d.previewImage)
       /\ Same(e.description, d.description)
       /\ SameId(IdOrElse(e.post_id, e.postId), IdOrElse(d.post_id, d.postId))

\* C39: two initialisations from disk over the same directory, sizes not
\* skipped, yield the same images list, and no size generation is started
\* for a file the size generation wrote.
InitFromDiskTwiceYieldsSameImages ==
  (args # <<>> /\ args.op = "initTwice" /\ result # <<>>
     /\ result.first.ret = "album") =>
    /\ result.second.ret = "album"
    /\ result.second.names = result.first.names
    /\ \A i \in DOMAIN result.second.sized : Len(result.second.sized[i]) = 1

\* C40: when deleteAlbum() has returned true, the operation that follows on
\* the instance, save() in particular, stores no document of the album and
\* adds no entry of the album to the stream.
DeletedAlbumStaysDeleted ==
  [][(call.op = "deleteAlbum" /\ call.ret = "true") =>
       /\ \A d \in store' \ store : d._id # album'.albumId
       /\ \A e \in stream' \ stream : e.album # album'.albumId]_vars

====
